---------------------------- MODULE Spec2Model ----------------------------
(***************************************************************************)
(* A model of the measurement core of meas_base:                           *)
(*   - ApertureFlux.cc : computeFlux / computeSincFlux / computeNaiveFlux, *)
(*     the per-radius flag fields of ApertureFluxAlgorithm and             *)
(*     ApertureFluxTransform;                                              *)
(*   - SdssShape.cc    : getWeights, shouldInterp, set_amom_bbox, calcmom, *)
(*     calc_fisher, detail::getAdaptiveMoments, getFixedMomentsFlux and    *)
(*     SdssShapeAlgorithm::apply;                                          *)
(*   - InputUtilities.cc : SafeCentroidExtractor and SafeShapeExtractor.   *)
(*                                                                         *)
(* Real numbers.  The C++ works in float/double.  Here every real is an    *)
(* integer count of 1/FX (fixed point), products and quotients are rounded *)
(* to the nearest 1/FX, and a quantity that the code can leave NaN is a    *)
(* record [nan, v].  std::numeric_limits<float>::epsilon() is below the    *)
(* resolution, so "det < epsilon" is "det < 1 unit", i.e. det <= 0.  A      *)
(* float is a real rounded to FloatBits significant bits.                  *)
(***************************************************************************)
EXTENDS Integers, Sequences, FiniteSets, TLC

(***************************************************************************)
(* Fixed-point arithmetic                                                  *)
(***************************************************************************)
FX == 2^8                      \* one unit of the reals is 1/FX

Abs(a) == IF a < 0 THEN -a ELSE a

Max(a, b) == IF a > b THEN a ELSE b

Min(a, b) == IF a < b THEN a ELSE b

\* floor(n/d), d > 0
FloorDiv(n, d) == IF n >= 0 THEN n \div d ELSE -((-n + d - 1) \div d)

\* n/d rounded to nearest, d # 0
RoundDiv(n, d) ==
    IF d > 0 THEN FloorDiv(n + (d \div 2), d)
             ELSE FloorDiv(-n + ((-d) \div 2), -d)

FxMul(a, b) == RoundDiv(a * b, FX)

FxDiv(a, b) == RoundDiv(a * FX, b)

\* static_cast<int>(v) of a real v: truncation toward zero
CastInt(v) == IF v >= 0 THEN v \div FX ELSE -((-v) \div FX)

\* floor(sqrt(n)) of a natural number, by bisection on [lo, hi)
RECURSIVE ISqrtIn(_, _, _)
ISqrtIn(n, lo, hi) ==
    IF hi - lo <= 1 THEN lo
    ELSE LET mid == (lo + hi) \div 2
         IN IF mid * mid <= n THEN ISqrtIn(n, mid, hi) ELSE ISqrtIn(n, lo, mid)

ISqrt(n) == ISqrtIn(n, 0, 2^15 + 2^14)

\* sqrt of a real >= 0
FxSqrt(v) == IF v < 2^22 THEN ISqrt(v * FX) ELSE 2^4 * ISqrt(v)

\* the significand of a float, in bits; the reals of the model (the doubles)
\* are exact to 1/FX
FloatBits == 8

\* floor(log2(n)) + 1 of a natural number
RECURSIVE BitLength(_)
BitLength(n) == IF n = 0 THEN 0 ELSE 1 + BitLength(n \div 2)

\* the conversion double -> float: v rounded to FloatBits significant bits
ToFloat(v) ==
    LET a == Abs(v)
        sh == BitLength(a) - FloatBits
        r == IF sh <= 0 THEN a ELSE ((a + 2^(sh - 1)) \div 2^sh) * 2^sh
    IN IF v >= 0 THEN r ELSE -r

\* a quantity that may be NaN
Num(v) == [nan |-> FALSE, v |-> v]

NaN == [nan |-> TRUE, v |-> 0]

(***************************************************************************)
(* approxExp: the tabulated exponential (lsst::utils::PowFast).  exp(-t)   *)
(* for t >= 0 is the product of a coarse entry (steps of 1/8) and a fine   *)
(* entry (steps of 1/256), both in units of 1/4096.                        *)
(***************************************************************************)
ExpCoarse ==
  <<4096, 3615, 3190, 2815, 2484, 2192, 1935, 1707, 1507, 1330, 1174, 1036,
    914, 807, 712, 628, 554, 489, 432, 381, 336, 297, 262, 231, 204, 180,
    159, 140, 124, 109, 96, 85, 75, 66, 58, 52, 46, 40, 35, 31, 28, 24, 21,
    19, 17, 15, 13, 12, 10, 9, 8, 7, 6, 5, 5, 4, 4>>

ExpFine ==
  <<4096, 4080, 4064, 4048, 4032, 4017, 4001, 3986, 3970, 3955, 3939, 3924,
    3908, 3893, 3878, 3863, 3848, 3833, 3818, 3803, 3788, 3773, 3759, 3744,
    3729, 3715, 3700, 3686, 3672, 3657, 3643, 3629>>

\* exp(-t), t >= 0 a real
ExpNeg(t) ==
    IF t \div 32 >= Len(ExpCoarse) THEN 0
    ELSE RoundDiv(ExpCoarse[(t \div 32) + 1] * ExpFine[(t % 32) + 1], 2^16)

\* approxExp(x)
approxExp(x) == IF x <= 0 THEN ExpNeg(-x) ELSE FxDiv(FX, ExpNeg(x))

PI == (355 * FX) \div 113

(***************************************************************************)
(* SdssShape.cc: getWeights                                                *)
(***************************************************************************)
\* "d < epsilon" and "d <= epsilon": epsilon (float or double) is positive
\* and below one unit, so both say d <= 0
BelowEpsilon(d) == d <= 0

iMin == FX \div 12             \* 1/12.0, 2nd moment of a single pixel

\* the tuple ((ok, det), w11, w12, w22); nan says that det and the weights
\* are NaN
WeightsFail == [ok |-> FALSE, nan |-> TRUE, det |-> 0,
                w11 |-> 0, w12 |-> 0, w22 |-> 0]

\* the "careful" branch (lines 182-210): 1/12 added in quadrature to both
\* principal axes is 1/12 added to both eigenvalues, i.e. to Ixx and Iyy
getWeightsCareful(sigma11, sigma12, sigma22, det, careful) ==
    IF ~careful
    THEN [ok |-> FALSE, nan |-> FALSE, det |-> det,
          w11 |-> 0, w12 |-> 0, w22 |-> 0]
    ELSE LET q11 == sigma11 + iMin
             q22 == sigma22 + iMin
             det2 == FxMul(q11, q22) - FxMul(sigma12, sigma12)
         IN [ok |-> TRUE, nan |-> FALSE, det |-> det2,
             w11 |-> FxDiv(q22, det2), w12 |-> -FxDiv(sigma12, det2),
             w22 |-> FxDiv(q11, det2)]

\* a variant that fails for a zero determinant only
getWeights_NegativeDet(sigma11, sigma12, sigma22, careful) ==
    LET det == FxMul(sigma11, sigma22) - FxMul(sigma12, sigma12)
    IN IF det = 0
       THEN WeightsFail
       ELSE [ok |-> TRUE, nan |-> FALSE, det |-> det,
             w11 |-> FxDiv(sigma22, det), w12 |-> -FxDiv(sigma12, det),
             w22 |-> FxDiv(sigma11, det)]

getWeights(sigma11, sigma12, sigma22, careful) ==
    LET det == FxMul(sigma11, sigma22) - FxMul(sigma12, sigma12)
    IN IF BelowEpsilon(det)                        \* line 177
       THEN WeightsFail
       ELSE IF BelowEpsilon(det)                   \* line 182
       THEN getWeightsCareful(sigma11, sigma12, sigma22, det, careful)
       ELSE [ok |-> TRUE, nan |-> FALSE, det |-> det,
             w11 |-> FxDiv(sigma22, det), w12 |-> -FxDiv(sigma12, det),
             w22 |-> FxDiv(sigma11, det)]

(***************************************************************************)
(* SdssShape.cc: shouldInterp, set_amom_bbox                               *)
(***************************************************************************)
shouldInterp(sigma11, sigma22, det) ==
    LET xinterp == FX \div 4
    IN sigma11 < xinterp \/ sigma22 < xinterp \/ det < FxMul(xinterp, xinterp)

maxRad == 1000

\* the box before it is clipped to the image: the four casts of lines
\* 243, 245, 249, 253
RequestedBox(xcen, ycen, sigma11_w, sigma22_w) ==
    LET rad0 == 4 * FxSqrt(Max(sigma11_w, sigma22_w))
        rad == IF rad0 > maxRad * FX THEN maxRad * FX ELSE rad0
    IN [ix0 |-> CastInt(xcen - rad - FX \div 2),
        iy0 |-> CastInt(ycen - rad - FX \div 2),
        ix1 |-> CastInt(xcen + rad + FX \div 2),
        iy1 |-> CastInt(ycen + rad + FX \div 2)]

\* a variant that does not clip the upper corner
set_amom_bbox_UpperUnclipped(width, height, xcen, ycen, sigma11_w, sigma22_w) ==
    LET r == RequestedBox(xcen, ycen, sigma11_w, sigma22_w)
    IN [ix0 |-> IF r.ix0 < 0 THEN 0 ELSE r.ix0,
        iy0 |-> IF r.iy0 < 0 THEN 0 ELSE r.iy0,
        ix1 |-> r.ix1,
        iy1 |-> r.iy1]

set_amom_bbox(width, height, xcen, ycen, sigma11_w, sigma22_w) ==
    LET r == RequestedBox(xcen, ycen, sigma11_w, sigma22_w)
    IN [ix0 |-> IF r.ix0 < 0 THEN 0 ELSE r.ix0,
        iy0 |-> IF r.iy0 < 0 THEN 0 ELSE r.iy0,
        ix1 |-> IF r.ix1 >= width THEN width - 1 ELSE r.ix1,
        iy1 |-> IF r.iy1 >= height THEN height - 1 ELSE r.iy1]

\* a default-constructed geom::BoxI (empty)
EmptyBox == [ix0 |-> 0, iy0 |-> 0, ix1 |-> -1, iy1 |-> -1]

(***************************************************************************)
(* Images.  An image is [width, height, pix, var]: pix maps the pixels     *)
(* that are not zero to their (integer) value; var is the value of the     *)
(* variance plane of a MaskedImage (uniform), or NaN for a plain Image    *)
(* (ImageAdaptor<ImageT>::getVariance, lines 149-151).                     *)
(***************************************************************************)
PixelAt(image, j, i) ==
    IF <<j, i>> \in DOMAIN image.pix THEN image.pix[<<j, i>>] * FX ELSE 0

(***************************************************************************)
(* SdssShape.cc: calcmom                                                   *)
(***************************************************************************)
ZeroSums == [sum |-> 0, sumx |-> 0, sumy |-> 0, sumxx |-> 0, sumxy |-> 0,
             sumyy |-> 0, sums4 |-> 0]

AddSums(a, b) ==
    [sum |-> a.sum + b.sum, sumx |-> a.sumx + b.sumx,
     sumy |-> a.sumy + b.sumy, sumxx |-> a.sumxx + b.sumxx,
     sumxy |-> a.sumxy + b.sumxy, sumyy |-> a.sumyy + b.sumyy,
     sums4 |-> a.sums4 + b.sums4]

\* X*X*w11 + 2*X*Y*w12 + Y*Y*w22
Expon(X, Y, w11, w12, w22) ==
    FxMul(FxMul(X, X), w11) + 2 * FxMul(FxMul(X, Y), w12)
        + FxMul(FxMul(Y, Y), w22)

\* what one sample at offset (X, Y) from the centre adds to the sums
\* (lines 337-364 and 375-401)
Sample(fluxOnly, tmod, X, Y, xcen, ycen, w11, w12, w22) ==
    LET expon == Expon(X, Y, w11, w12, w22)
        weight == approxExp(-(expon \div 2))
        ymod == FxMul(tmod, weight)
    IN IF fluxOnly
       THEN [ZeroSums EXCEPT !.sum = ymod]
       ELSE [sum |-> ymod,
             sumx |-> FxMul(ymod, X + xcen),
             sumy |-> FxMul(ymod, Y + ycen),
             sumxx |-> FxMul(FxMul(X, X), ymod),
             sumxy |-> FxMul(FxMul(X, Y), ymod),
             sumyy |-> FxMul(FxMul(Y, Y), ymod),
             sums4 |-> FxMul(FxMul(expon, expon), ymod)]

\* the sub-pixel offsets of "for (X = xl; X <= xh; X += 0.25)"
SubPixel == <<-(3 * FX) \div 8, -FX \div 8, FX \div 8, (3 * FX) \div 8>>

\* what pixel (j, i) adds to the sums (lines 317-404)
PixelSums(fluxOnly, image, j, i, xcen, ycen, bkgd, interpflag, w11, w12, w22) ==
    LET x == j * FX - xcen
        y == i * FX - ycen
        tmod == PixelAt(image, j, i) - bkgd
    IN IF interpflag
       THEN LET xl == x + SubPixel[1]
                xh == x + SubPixel[4]
                yl == y + SubPixel[1]
                yh == y + SubPixel[4]
                expon == Max(Max(Expon(xl, yl, w11, w12, w22),
                                 Expon(xh, yh, w11, w12, w22)),
                             Max(Expon(xl, yh, w11, w12, w22),
                                 Expon(xh, yl, w11, w12, w22)))
                sub(k) == Sample(fluxOnly, tmod, x + SubPixel[(k % 4) + 1],
                                 y + SubPixel[(k \div 4) + 1],
                                 xcen, ycen, w11, w12, w22)
                RECURSIVE Sub(_, _)
                Sub(lo, hi) ==
                    IF lo = hi THEN sub(lo)
                    ELSE AddSums(Sub(lo, (lo + hi) \div 2),
                                 Sub(((lo + hi) \div 2) + 1, hi))
            IN IF expon <= 9 * FX THEN Sub(0, 15) ELSE ZeroSums
       ELSE IF Expon(x, y, w11, w12, w22) <= 14 * FX
            THEN Sample(fluxOnly, tmod, x, y, xcen, ycen, w11, w12, w22)
            ELSE ZeroSums

\* the sums over the box (lines 310-406)
BoxSums(fluxOnly, image, xcen, ycen, bbox, bkgd, interpflag, w11, w12, w22) ==
    LET bw == bbox.ix1 - bbox.ix0 + 1
        bh == bbox.iy1 - bbox.iy0 + 1
        n == IF bw <= 0 \/ bh <= 0 THEN 0 ELSE bw * bh
        pixel(k) == PixelSums(fluxOnly, image, bbox.ix0 + (k % bw),
                              bbox.iy0 + (k \div bw),
                              xcen, ycen, bkgd, interpflag, w11, w12, w22)
        RECURSIVE Acc(_, _)
        Acc(lo, hi) ==
            IF lo = hi THEN pixel(lo)
            ELSE AddSums(Acc(lo, (lo + hi) \div 2),
                         Acc(((lo + hi) \div 2) + 1, hi))
    IN IF n = 0 THEN ZeroSums ELSE Acc(0, n - 1)

\* *pI0 = sum/(PI*sqrt(detW)), detW from getWeights(w11, w12, w22) (409-411)
Amplitude(sum, w11, w12, w22) ==
    LET weights == getWeights(w11, w12, w22, TRUE)
        detW == FxMul(weights.w11, weights.w22) - FxMul(weights.w12, weights.w12)
    IN IF weights.nan \/ detW <= 0 THEN NaN
       ELSE Num(FxDiv(sum, FxMul(PI, FxSqrt(detW))))

W_LIMIT == 1000000

\* calcmom<fluxOnly>: rc is the value returned; wrote says whether the output
\* arguments were assigned (the two early returns leave them as they were)
calcmom(fluxOnly, image, xcen, ycen, bbox, bkgd, interpflag, w11, w12, w22) ==
    IF Abs(w11) > W_LIMIT * FX \/ Abs(w12) > W_LIMIT * FX \/ Abs(w22) > W_LIMIT * FX
    THEN [rc |-> -1, wrote |-> FALSE, I0 |-> NaN, sums |-> ZeroSums]
    ELSE IF bbox.ix0 < 0 \/ bbox.ix1 >= image.width
            \/ bbox.iy0 < 0 \/ bbox.iy1 >= image.height
    THEN [rc |-> -1, wrote |-> FALSE, I0 |-> NaN, sums |-> ZeroSums]
    ELSE LET s == BoxSums(fluxOnly, image, xcen, ycen, bbox, bkgd, interpflag,
                          w11, w12, w22)
         IN [rc |-> IF fluxOnly \/ (s.sum > 0 /\ s.sumxx > 0 /\ s.sumyy > 0)
                    THEN 0 ELSE -1,
             wrote |-> TRUE,
             I0 |-> Amplitude(s.sum, w11, w12, w22),
             sums |-> s]

(***************************************************************************)
(* State                                                                   *)
(***************************************************************************)
VARIABLES
    pc,       \* where the call being modelled stands
    arg,      \* the arguments of the call
    ret,      \* what the call returned ("none" before it returns)
    am,       \* getAdaptiveMoments: its local variables
    shape,    \* getAdaptiveMoments: the SdssShapeImpl written through *shape
    schema,   \* afw::table::Schema: the names of the fields it holds
    mapper,   \* afw::table::SchemaMapper: the names of the fields mapped
    record    \* afw::table::SourceRecord: slots, footprint and flags

momentVars == <<am, shape>>

fieldVars == <<schema, mapper, record>>

vars == <<pc, arg, ret, am, shape, schema, mapper, record>>

\* a SourceRecord of a table without slots: no centroid, no shape, no
\* footprint, no flag set.  The moments of the shape slot are whole numbers
\* of pixels^2, the coordinates of the centroid and of the peaks whole pixels
NewRecord ==
    [centroidKey |-> FALSE, centroidFlagKey |-> FALSE,
     centroid |-> <<NaN, NaN>>,
     centroidFlag |-> FALSE,
     shapeKey |-> FALSE, shapeFlagKey |-> FALSE,
     shapeSlot |-> [Ixx |-> NaN,
                    Iyy |-> NaN,
                    Ixy |-> NaN],
     shapeFlag |-> FALSE, footprint |-> [present |-> FALSE, peaks |-> <<>>],
     flags |-> {}]

(***************************************************************************)
(* The inputs explored                                                     *)
(***************************************************************************)
MaxIterBound == 3              \* maxIter ranges over 0..MaxIterBound

ImgSingle ==
    [width |-> 7, height |-> 7, var |-> NaN, pix |-> (<<3, 3>> :> 100)]

ImgBlob ==
    [width |-> 7, height |-> 7, var |-> Num(FX),
     pix |-> (<<3, 3>> :> 8 @@ <<2, 3>> :> 4 @@ <<4, 3>> :> 4 @@ <<3, 2>> :> 4
              @@ <<3, 4>> :> 4 @@ <<2, 2>> :> 2 @@ <<4, 4>> :> 2
              @@ <<2, 4>> :> 2 @@ <<4, 2>> :> 2)]

ImgTwo ==
    [width |-> 7, height |-> 7, var |-> Num(FX),
     pix |-> (<<1, 3>> :> 9 @@ <<5, 3>> :> 9 @@ <<1, 2>> :> 3 @@ <<1, 4>> :> 3
              @@ <<5, 2>> :> 3 @@ <<5, 4>> :> 3)]

ImgNeg ==
    [width |-> 7, height |-> 7, var |-> Num(FX),
     pix |-> (<<3, 3>> :> 1 @@ <<4, 4>> :> 2 @@ <<4, 2>> :> -1)]

ImgZero ==
    [width |-> 7, height |-> 7, var |-> Num(0), pix |-> (<<3, 3>> :> 0)]

ImgFlat ==
    [width |-> 7, height |-> 7, var |-> NaN,
     pix |-> [p \in (0..6) \X (0..6) |-> 1]]

ImgWide ==
    [width |-> 7, height |-> 7, var |-> Num(FX),
     pix |-> [p \in (0..6) \X (0..6) |->
                 Max(0, 6 - Abs(p[1] - 3) - Abs(p[2] - 3))]]

ImgBig ==
    [width |-> 11, height |-> 11, var |-> Num(FX),
     pix |-> [p \in (3..7) \X (3..7) |->
                 Max(0, 6 - 2 * Abs(p[1] - 5) - 2 * Abs(p[2] - 5))]]

\* two neighbouring pixels: the weight shrinks until shouldInterp holds at
\* the third iteration
ImgPair ==
    [width |-> 7, height |-> 7, var |-> Num(FX),
     pix |-> (<<3, 2>> :> 7 @@ <<4, 2>> :> 3)]

Images ==
    {ImgSingle, ImgBlob, ImgTwo, ImgNeg, ImgZero, ImgFlat, ImgWide, ImgBig,
     ImgPair}

\* initial centres (image-local pixel coordinates)
Centres == {<<3, 3>>, <<1, 3>>, <<3, 1>>, <<5, 5>>}

(***************************************************************************)
(* SdssShapeImpl, as its constructor leaves it                             *)
(***************************************************************************)
UNWEIGHTED_BAD == "UNWEIGHTED_BAD"
UNWEIGHTED == "UNWEIGHTED"
SHIFT == "SHIFT"
MAXITER == "MAXITER"

NewShape ==
    [x |-> NaN, y |-> NaN, Ixx |-> NaN, Ixy |-> NaN, Iyy |-> NaN,
     I0 |-> NaN, Ixy4 |-> NaN, covar |-> "unset", flags |-> {}]

OLD_INIT == 1000000            \* e1_old = e2_old = sigma11_ow_old = 1e6

\* the locals of getAdaptiveMoments as declared (lines 451-477); the sums
\* are declared without a value: sumsSet records whether calcmom has
\* assigned them.  exit is the edge by which the loop was left: "test" (the
\* test iter < maxIter failed), "break" (a break that sets UNWEIGHTED) or
\* "converged" (the break of line 559)
NewLocals ==
    [iter |-> 0, sigma11W |-> (3 * FX) \div 2, sigma12W |-> 0,
     sigma22W |-> (3 * FX) \div 2, w11 |-> -FX, w12 |-> -FX, w22 |-> -FX,
     e1_old |-> OLD_INIT * FX, e2_old |-> OLD_INIT * FX,
     sigma11_ow_old |-> OLD_INIT * FX, interpflag |-> FALSE,
     bbox |-> EmptyBox, I0 |-> Num(0), sumsSet |-> FALSE, sums |-> ZeroSums,
     exit |-> "none", passes |-> 0]

InitMoments ==
    /\ pc = "start"
    /\ \E image \in Images, c \in Centres, cenNaN \in BOOLEAN,
          shiftmax \in {FX, 2 * FX}, maxIter \in 0..MaxIterBound,
          tol \in {2, 16} :
         /\ cenNaN => c = <<3, 3>>
         /\ arg = [image |-> image, xcen |-> c[1] * FX, ycen |-> c[2] * FX,
                   cenNaN |-> cenNaN, bkgd |-> 0, shiftmax |-> shiftmax,
                   maxIter |-> maxIter, tol1 |-> tol, tol2 |-> tol]
    /\ am = NewLocals
    /\ shape = NewShape
    /\ ret = "none"
    /\ schema = {}
    /\ mapper = {}
    /\ record = NewRecord

(***************************************************************************)
(* SdssShape.cc: detail::getAdaptiveMoments, one action per stretch of     *)
(* code between two points where the loop can be left                      *)
(***************************************************************************)
SetFlag(f) == [shape EXCEPT !.flags = @ \cup {f}]

\* lines 469-478: the NaN test and the first test of the loop
AM_Start ==
    /\ pc = "start"
    /\ UNCHANGED fieldVars
    /\ IF arg.cenNaN
       THEN /\ shape' = SetFlag(UNWEIGHTED_BAD)
            /\ ret' = "false"
            /\ pc' = "done"
       ELSE /\ pc' = IF am.iter < arg.maxIter THEN "weights" ELSE "post"
            /\ UNCHANGED <<shape, ret>>
    /\ am' = IF ~arg.cenNaN /\ ~(am.iter < arg.maxIter)
             THEN [am EXCEPT !.exit = "test"] ELSE am
    /\ UNCHANGED arg

\* a variant with the block of lines 523-531 compiled in
loopCentre_Updated(cen, c) == IF c.nan THEN cen ELSE c.v

\* the centre of the box and of the weight in a pass: xcen (ycen), which the
\* loop never assigns (lines 523-531 are under "#if 0"); c is the centroid
\* stored in the shape
loopCentre(cen, c) == cen

\* a variant that never restores
interpRestores_Never(iter) == FALSE

\* line 506: the switch restores the weights and repeats the iteration
\* unless it is the first
interpRestores(iter) == iter > 0

\* a variant whose switch is not latched by interpflag
switchToInterp_Unlatched(interpflag, should) == should

\* lines 503-504: the switch to interpolation happens once, interpflag
\* "stays set for this object"
switchToInterp(interpflag, should) == should /\ ~interpflag

\* the passes counted in am.passes stop at PassCap
PassCap == MaxIterBound + 3

\* one more execution of the body of the loop (am.passes is not a variable
\* of the code: it counts the passes)
OnePassMore(n) == IF n < PassCap THEN n + 1 ELSE n

\* lines 479-516: the box, the weights and the switch to interpolation
AM_Weights ==
    /\ pc = "weights"
    /\ UNCHANGED fieldVars
    /\ \E weights \in {getWeights(am.sigma11W, am.sigma12W, am.sigma22W, TRUE)} :
         LET bbox == set_amom_bbox(arg.image.width, arg.image.height,
                                   loopCentre(arg.xcen, shape.x),
                                   loopCentre(arg.ycen, shape.y),
                                   am.sigma11W, am.sigma22W)
             detW == weights.det
             switch == switchToInterp(am.interpflag,
                                      shouldInterp(am.sigma11W, am.sigma22W, detW))
             restore == switch /\ interpRestores(am.iter)
         IN IF ~weights.ok
            THEN /\ am' = [am EXCEPT !.bbox = bbox, !.exit = "break",
                                      !.passes = OnePassMore(@)]
                 /\ shape' = SetFlag(UNWEIGHTED)
                 /\ pc' = "post"
            ELSE /\ am' = [am EXCEPT
                             !.bbox = bbox,
                             !.passes = OnePassMore(@),
                             !.w11 = IF restore THEN @ ELSE weights.w11,
                             !.w12 = IF restore THEN @ ELSE weights.w12,
                             !.w22 = IF restore THEN @ ELSE weights.w22,
                             !.interpflag = @ \/ switch,
                             !.sigma11_ow_old = IF restore THEN OLD_INIT * FX ELSE @,
                             !.iter = IF restore THEN @ - 1 ELSE @]
                 /\ shape' = shape
                 /\ pc' = "calcmom"
    /\ UNCHANGED <<arg, ret>>

\* lines 518-522: the weighted moments
AM_Calcmom ==
    /\ pc = "calcmom"
    /\ UNCHANGED fieldVars
    /\ \E m \in {calcmom(FALSE, arg.image, loopCentre(arg.xcen, shape.x),
                         loopCentre(arg.ycen, shape.y), am.bbox, arg.bkgd,
                         am.interpflag, am.w11, am.w12, am.w22)} :
         /\ am' = [(IF m.wrote
                    THEN [am EXCEPT !.I0 = m.I0, !.sums = m.sums,
                                    !.sumsSet = TRUE]
                    ELSE am)
                  EXCEPT !.exit = IF m.rc < 0 THEN "break" ELSE @]
         /\ IF m.rc < 0
            THEN shape' = SetFlag(UNWEIGHTED) /\ pc' = "post"
            ELSE shape' = shape /\ pc' = "centroid"
    /\ UNCHANGED <<arg, ret>>

\* a variant that tests the shift in x only
ShiftExceeded_XOnly(x, y, xcen0, ycen0, shiftmax) ==
    Abs(x - xcen0) > shiftmax

\* line 535: the test that sets SHIFT
ShiftExceeded(x, y, xcen0, ycen0, shiftmax) ==
    Abs(x - xcen0) > shiftmax \/ Abs(y - ycen0) > shiftmax

\* lines 532-537: the centroid and the SHIFT flag
AM_Centroid ==
    /\ pc = "centroid"
    /\ UNCHANGED fieldVars
    /\ LET x == FxDiv(am.sums.sumx, am.sums.sum)
           y == FxDiv(am.sums.sumy, am.sums.sum)
       IN shape' = [shape EXCEPT
                      !.x = Num(x), !.y = Num(y),
                      !.flags = IF ShiftExceeded(x, y, arg.xcen, arg.ycen,
                                                 arg.shiftmax)
                                THEN @ \cup {SHIFT} ELSE @]
    /\ pc' = "moments"
    /\ UNCHANGED <<arg, am, ret>>

\* lines 541-622: the second moments, the convergence test and the new
\* weighting function; the "for" increments iter and tests it again
AM_Moments ==
    /\ pc = "moments"
    /\ UNCHANGED fieldVars
    /\ LET sigma11_ow == FxDiv(am.sums.sumxx, am.sums.sum)
           sigma22_ow == FxDiv(am.sums.sumyy, am.sums.sum)
           sigma12_ow == FxDiv(am.sums.sumxy, am.sums.sum)
           d == sigma11_ow + sigma22_ow
           e1 == FxDiv(sigma11_ow - sigma22_ow, d)
           e2 == FxDiv(2 * sigma12_ow, d)
           converged ==
               /\ am.iter > 0
               /\ Abs(e1 - am.e1_old) < arg.tol1
               /\ Abs(e2 - am.e2_old) < arg.tol1
               /\ Abs(FxDiv(sigma11_ow, am.sigma11_ow_old) - FX) < arg.tol2
           old == [am EXCEPT !.e1_old = e1, !.e2_old = e2,
                             !.sigma11_ow_old = sigma11_ow]
           ow == getWeights(sigma11_ow, sigma12_ow, sigma22_ow, TRUE)
           n == getWeights(ow.w11 - am.w11, ow.w12 - am.w12, ow.w22 - am.w22,
                           FALSE)
           next == [old EXCEPT !.sigma11W = n.w11, !.sigma12W = n.w12,
                               !.sigma22W = n.w22]
           Break(loc) == /\ am' = [loc EXCEPT !.exit = "break"]
                         /\ shape' = SetFlag(UNWEIGHTED)
                         /\ pc' = "post"
       IN IF sigma11_ow <= 0 \/ sigma22_ow <= 0 THEN Break(am)
          ELSE IF converged
          THEN /\ am' = [am EXCEPT !.exit = "converged"]
               /\ shape' = shape
               /\ pc' = "post"
          ELSE IF ~ow.ok THEN Break(old)
          ELSE IF ~n.ok THEN Break(old)
          ELSE IF n.w11 <= 0 \/ n.w22 <= 0 THEN Break(next)
          ELSE /\ am' = [next EXCEPT
                           !.iter = @ + 1,
                           !.exit = IF am.iter + 1 < arg.maxIter
                                    THEN @ ELSE "test"]
               /\ shape' = shape
               /\ pc' = IF am.iter + 1 < arg.maxIter THEN "weights" ELSE "post"
    /\ UNCHANGED <<arg, ret>>

\* a variant that sets MAXITER without UNWEIGHTED
PostLoopFlags_MaxiterOnly(iter, maxIter, zero) ==
    (IF iter = maxIter THEN {MAXITER} ELSE {})
        \cup (IF zero THEN {UNWEIGHTED} ELSE {})

\* lines 624-631: the flags set after the loop
PostLoopFlags(iter, maxIter, zero) ==
    (IF iter = maxIter THEN {UNWEIGHTED, MAXITER} ELSE {})
        \cup (IF zero THEN {UNWEIGHTED} ELSE {})

\* lines 624-635.  "sumxx + sumyy == 0.0" reads the sums; when calcmom has
\* not assigned them the value read is indeterminate
AM_PostLoop ==
    /\ pc = "post"
    /\ UNCHANGED fieldVars
    /\ \E zero \in IF am.sumsSet THEN {am.sums.sumxx + am.sums.sumyy = 0}
                                 ELSE BOOLEAN :
         /\ shape' = [shape EXCEPT
                         !.flags = @ \cup PostLoopFlags(am.iter, arg.maxIter, zero)]
         /\ pc' = IF UNWEIGHTED \in shape'.flags THEN "fallback" ELSE "finish"
    /\ UNCHANGED <<arg, am, ret>>

\* a variant that assigns the single-pixel moments whatever the sum
FallbackFailed_AlwaysSinglePixel(sh, sum) ==
    [sh EXCEPT !.flags = (@ \ {UNWEIGHTED}) \cup {UNWEIGHTED_BAD},
               !.Ixx = Num(iMin), !.Ixy = Num(0), !.Iyy = Num(iMin)]

\* a variant that leaves UNWEIGHTED set beside UNWEIGHTED_BAD
FallbackFailed_KeepsUnweighted(sh, sum) ==
    [sh EXCEPT !.flags = @ \cup {UNWEIGHTED_BAD},
               !.Ixx = IF sum > 0 THEN Num(iMin) ELSE @,
               !.Ixy = IF sum > 0 THEN Num(0) ELSE @,
               !.Iyy = IF sum > 0 THEN Num(iMin) ELSE @]

\* lines 639-646: the shape when the unweighted moments are bad too
FallbackFailed(sh, sum) ==
    [sh EXCEPT !.flags = (@ \ {UNWEIGHTED}) \cup {UNWEIGHTED_BAD},
               !.Ixx = IF sum > 0 THEN Num(iMin) ELSE @,
               !.Ixy = IF sum > 0 THEN Num(0) ELSE @,
               !.Iyy = IF sum > 0 THEN Num(iMin) ELSE @]

\* lines 636-654: the unweighted moments.  psums4 is NULL: sums4 keeps the
\* value of the last weighted pass
AM_Fallback ==
    /\ pc = "fallback"
    /\ UNCHANGED fieldVars
    /\ \E m \in {calcmom(FALSE, arg.image, arg.xcen, arg.ycen, am.bbox, arg.bkgd,
                         am.interpflag, 0, 0, 0)} :
         LET sums == IF m.wrote THEN [m.sums EXCEPT !.sums4 = am.sums.sums4]
                                ELSE am.sums
             I0 == IF m.wrote THEN m.I0 ELSE am.I0
             loc == [am EXCEPT !.w11 = 0, !.w12 = 0, !.w22 = 0, !.I0 = I0,
                               !.sums = sums, !.sumsSet = @ \/ m.wrote]
         IN IF m.rc < 0 \/ sums.sum <= 0
            THEN /\ am' = loc
                 /\ shape' = FallbackFailed(shape, sums.sum)
                 /\ ret' = "false"
                 /\ pc' = "done"
            ELSE /\ am' = [loc EXCEPT
                        !.sigma11W = FxDiv(sums.sumxx, sums.sum),
                        !.sigma12W = FxDiv(sums.sumxy, sums.sum),
                        !.sigma22W = FxDiv(sums.sumyy, sums.sum)]
                 /\ shape' = shape
                 /\ ret' = ret
                 /\ pc' = "finish"
    /\ UNCHANGED arg

\* afw::image::positionToIndex
positionToIndex(pos) == FloorDiv(pos + FX \div 2, FX)

\* a variant of the test of line 103: !(bkgd_var > 0.0)
varianceRejected_NotPositive(bkgd_var) ==
    bkgd_var.nan \/ ToFloat(bkgd_var.v) <= 0

\* line 103: bkgd_var <= 0.0, false for a NaN
varianceRejected(bkgd_var) == ~bkgd_var.nan /\ ToFloat(bkgd_var.v) <= 0

\* a variant without the two tests
calc_fisher_NeverThrows(sh, bkgd_var) == [error |-> "none", F |-> NaN]

\* calc_fisher (lines 86-137): the two domain errors; F is the normalisation.
\* The moments and bkgd_var are narrowed to float, the products and their
\* difference are float, D is that float widened.  bkgd_var may be NaN:
\* "bkgd_var <= 0.0" is then false and F is NaN
calc_fisher(sh, bkgd_var) ==
    LET sigma11W == ToFloat(sh.Ixx.v)
        sigma12W == ToFloat(sh.Ixy.v)
        sigma22W == ToFloat(sh.Iyy.v)
        D == ToFloat(ToFloat(FxMul(sigma11W, sigma22W))
                     - ToFloat(FxMul(sigma12W, sigma12W)))
    IN IF BelowEpsilon(D) THEN [error |-> "DomainError", F |-> NaN]
       ELSE IF varianceRejected(bkgd_var)
       THEN [error |-> "DomainError", F |-> NaN]
       ELSE IF bkgd_var.nan THEN [error |-> "none", F |-> NaN]
       ELSE [error |-> "none",
             F |-> Num(FxDiv(FxMul(PI, FxSqrt(D)), ToFloat(bkgd_var.v)))]

\* lines 656-679: the result and its covariance
AM_Finish ==
    /\ pc = "finish"
    /\ UNCHANGED fieldVars
    /\ LET sh == [shape EXCEPT
                     !.I0 = am.I0,
                     !.Ixx = Num(am.sigma11W),
                     !.Ixy = Num(am.sigma12W),
                     !.Iyy = Num(am.sigma22W),
                     !.Ixy4 = Num(FxDiv(am.sums.sums4, am.sums.sum))]
           ix == positionToIndex(arg.xcen)
           iy == positionToIndex(arg.ycen)
           bkgd_var == arg.image.var
           wanted ==
               /\ sh.Ixx.v + sh.Iyy.v # 0
               /\ ix >= 0 /\ ix < arg.image.width
               /\ iy >= 0 /\ iy < arg.image.height
               /\ ~bkgd_var.nan /\ bkgd_var.v > 0
               /\ UNWEIGHTED \notin shape.flags
           fisher == calc_fisher(sh, bkgd_var)
       IN IF wanted /\ fisher.error # "none"
          THEN shape' = sh /\ ret' = "throw"
          ELSE /\ shape' = [sh EXCEPT !.covar = IF wanted THEN "set" ELSE @]
               /\ ret' = "true"
    /\ pc' = "done"
    /\ UNCHANGED <<arg, am>>

NextMoments ==
    \/ AM_Start
    \/ AM_Weights
    \/ AM_Calcmom
    \/ AM_Centroid
    \/ AM_Moments
    \/ AM_PostLoop
    \/ AM_Fallback
    \/ AM_Finish

SpecMoments == InitMoments /\ [][NextMoments]_vars

(***************************************************************************)
(* Properties of detail::getAdaptiveMoments                                *)
(***************************************************************************)
\* the call has returned a shape (true or false), the centre was not NaN
Returned == pc = "done" /\ ret \in {"true", "false"} /\ ~arg.cenNaN

\* the unweighted pass over the box of the last iteration
UnweightedPass ==
    calcmom(FALSE, arg.image, arg.xcen, arg.ycen, am.bbox, arg.bkgd,
            am.interpflag, 0, 0, 0)

\* C5: when the loop is left by its test (maxIter iterations, no convergence,
\* no break) MAXITER and UNWEIGHTED are both set after the loop and both are
\* still set in a shape returned with true; MAXITER is set on no other exit
\* of the loop
C5_MaxIterSetsBoth ==
    /\ (pc \in {"fallback", "finish"} /\ am.exit = "test")
           => {MAXITER, UNWEIGHTED} \subseteq shape.flags
    /\ (pc = "done" /\ ret = "true" /\ am.exit = "test")
           => {MAXITER, UNWEIGHTED} \subseteq shape.flags
    /\ (MAXITER \in shape.flags) => am.exit = "test"
    /\ (am.exit = "test") => am.iter = arg.maxIter
    /\ (am.exit \in {"break", "converged"}) => am.iter < arg.maxIter

C5_Witness ==
    /\ pc = "done" /\ ret = "true" /\ am.exit = "test" /\ arg.maxIter >= 2
    /\ {MAXITER, UNWEIGHTED} \subseteq shape.flags

\* C6: UNWEIGHTED set after the loop leads to the pass with weights (0,0,0);
\* when that pass fails or its sum is <= 0, UNWEIGHTED is cleared,
\* UNWEIGHTED_BAD is set, false is returned and (Ixx, Iyy, Ixy) is
\* (1/12, 1/12, 0) exactly when sum > 0 (else the moments are as constructed);
\* when it succeeds UNWEIGHTED stays and the moments are the ratios of the
\* unweighted sums
C6_UnweightedFallback ==
    /\ (pc = "finish" /\ UNWEIGHTED \notin shape.flags) => am.exit = "converged"
    /\ (pc = "finish" /\ UNWEIGHTED \in shape.flags)
           => am.w11 = 0 /\ am.w12 = 0 /\ am.w22 = 0
    /\ (Returned /\ ret = "true" /\ UNWEIGHTED \in shape.flags)
           => LET m == UnweightedPass
              IN /\ m.rc = 0 /\ m.sums.sum > 0
                 /\ UNWEIGHTED_BAD \notin shape.flags
                 /\ shape.Ixx = Num(FxDiv(m.sums.sumxx, m.sums.sum))
                 /\ shape.Ixy = Num(FxDiv(m.sums.sumxy, m.sums.sum))
                 /\ shape.Iyy = Num(FxDiv(m.sums.sumyy, m.sums.sum))
    /\ (Returned /\ ret = "false")
           => LET m == UnweightedPass
              IN /\ m.rc < 0 \/ m.sums.sum <= 0
                 /\ UNWEIGHTED_BAD \in shape.flags
                 /\ UNWEIGHTED \notin shape.flags
                 /\ IF m.sums.sum > 0
                    THEN /\ shape.Ixx = Num(iMin)
                         /\ shape.Iyy = Num(iMin)
                         /\ shape.Ixy = Num(0)
                    ELSE /\ shape.Ixx = NewShape.Ixx
                         /\ shape.Iyy = NewShape.Iyy
                         /\ shape.Ixy = NewShape.Ixy
    /\ (Returned /\ UNWEIGHTED_BAD \in shape.flags) => ret = "false"

C6_Witness ==
    /\ Returned /\ ret = "false" /\ UNWEIGHTED_BAD \in shape.flags
    /\ UnweightedPass.sums.sum <= 0 /\ shape.Ixx.nan

\* C7: the step that computes the centroid sets SHIFT exactly when the
\* centroid is more than shiftmax from the initial centre in x or y, changes
\* no other flag, does not return and goes on to the second moments; SHIFT,
\* once set, is never cleared
C7_ShiftNonFatal ==
    [][ /\ (SHIFT \in shape.flags) => (SHIFT \in shape'.flags)
        /\ (pc = "centroid") =>
              /\ pc' = "moments"
              /\ ret' = ret
              /\ shape'.flags \ {SHIFT} = shape.flags \ {SHIFT}
              /\ (SHIFT \in shape'.flags) <=>
                    \/ SHIFT \in shape.flags
                    \/ Abs(shape'.x.v - arg.xcen) > arg.shiftmax
                    \/ Abs(shape'.y.v - arg.ycen) > arg.shiftmax ]_vars

C7_Witness ==
    /\ pc = "done" /\ ret = "true" /\ shape.flags = {SHIFT}
    /\ ~shape.Ixx.nan /\ am.iter >= 1

\* C8: the moments of a returned shape satisfy Ixx*Iyy >= Ixy^2 - epsilon
C8_PositiveSemiDefinite ==
    (Returned /\ ~shape.Ixx.nan)
        => FxMul(shape.Ixx.v, shape.Iyy.v) >= FxMul(shape.Ixy.v, shape.Ixy.v) - 1

\* the requested box lies inside the image
RequestedInside ==
    LET r == RequestedBox(arg.xcen, arg.ycen, am.sigma11W, am.sigma22W)
    IN r.ix0 >= 0 /\ r.iy0 >= 0
           /\ r.ix1 < arg.image.width /\ r.iy1 < arg.image.height

MomentValues == {0, FX \div 4, FX, (3 * FX) \div 2, 4 * FX}

CrossValues == {-FX, 0, FX \div 2, FX, 2 * FX}

InitWeights ==
    /\ pc = "call"
    /\ \E sigma11 \in MomentValues, sigma12 \in CrossValues,
          sigma22 \in MomentValues, careful \in BOOLEAN :
         arg = [sigma11 |-> sigma11, sigma12 |-> sigma12, sigma22 |-> sigma22,
                careful |-> careful]
    /\ ret = "none"
    /\ am = NewLocals
    /\ shape = NewShape
    /\ schema = {}
    /\ mapper = {}
    /\ record = NewRecord

GW_Call ==
    /\ pc = "call"
    /\ ret' = getWeights(arg.sigma11, arg.sigma12, arg.sigma22, arg.careful)
    /\ pc' = "done"
    /\ UNCHANGED <<arg, am, shape, schema, mapper, record>>

NextWeights == GW_Call

SpecWeights == InitWeights /\ [][NextWeights]_vars

\* C9: with careful = true and a determinant below epsilon getWeights
\* returns ok = true, the determinant of the moments inflated by 1/12 and
\* the inverse of the inflated moments
C9_CarefulInflates ==
    (pc = "done" /\ arg.careful
        /\ BelowEpsilon(FxMul(arg.sigma11, arg.sigma22)
                            - FxMul(arg.sigma12, arg.sigma12)))
        => LET q11 == arg.sigma11 + iMin
               q22 == arg.sigma22 + iMin
               det2 == FxMul(q11, q22) - FxMul(arg.sigma12, arg.sigma12)
           IN /\ ret.ok
              /\ ~ret.nan
              /\ ret.det = det2
              /\ ret.w11 = FxDiv(q22, det2)
              /\ ret.w12 = -FxDiv(arg.sigma12, det2)
              /\ ret.w22 = FxDiv(q11, det2)

(***************************************************************************)
(* Boxes (lsst::geom::Box2I): [minX, minY, maxX, maxY], empty when a       *)
(* maximum is below its minimum                                            *)
(***************************************************************************)
BoxIsEmpty(b) == b.maxX < b.minX \/ b.maxY < b.minY

BoxContains(b, o) ==
    \/ BoxIsEmpty(o)
    \/ /\ ~BoxIsEmpty(b)
       /\ o.minX >= b.minX /\ o.maxX <= b.maxX
       /\ o.minY >= b.minY /\ o.maxY <= b.maxY

\* b.clip(o)
BoxClip(b, o) ==
    LET c == [minX |-> Max(b.minX, o.minX), minY |-> Max(b.minY, o.minY),
              maxX |-> Min(b.maxX, o.maxX), maxY |-> Min(b.maxY, o.maxY)]
    IN IF BoxIsEmpty(b) \/ BoxIsEmpty(o) \/ BoxIsEmpty(c)
       THEN [minX |-> 0, minY |-> 0, maxX |-> -1, maxY |-> -1]
       ELSE c

BoxPixels(b) == (b.minX .. b.maxX) \X (b.minY .. b.maxY)

CeilDiv(n, d) == -FloorDiv(-n, d)

(***************************************************************************)
(* Ellipses.  An ellipse is [x, y, a, b, theta]: centre, semi-major and    *)
(* semi-minor axis (a >= b) and the angle of the major axis, 0 or 90       *)
(* degrees.                                                                *)
(***************************************************************************)
\* the half extent along x and along y
HalfX(e) == IF e.theta = 0 THEN e.a ELSE e.b

HalfY(e) == IF e.theta = 0 THEN e.b ELSE e.a

\* afw::geom::ellipses::Axes(core).getB()
getB(e) == e.b

\* geom::Box2I(ellipse.computeBBox()): the smallest box of pixels that
\* covers the ellipse (a pixel i covers [i - 1/2, i + 1/2])
computeBBox(e) ==
    [minX |-> FloorDiv(e.x - HalfX(e) + FX \div 2, FX),
     minY |-> FloorDiv(e.y - HalfY(e) + FX \div 2, FX),
     maxX |-> CeilDiv(e.x + HalfX(e) - FX \div 2, FX),
     maxY |-> CeilDiv(e.y + HalfY(e) - FX \div 2, FX)]

\* the centre of pixel (x, y) lies in the ellipse
InsideEllipse(e, x, y) ==
    LET dx == x * FX - e.x
        dy == y * FX - e.y
        rx2 == FxMul(HalfX(e), HalfX(e))
        ry2 == FxMul(HalfY(e), HalfY(e))
    IN FxMul(FxMul(dx, dx), ry2) + FxMul(FxMul(dy, dy), rx2) <= FxMul(rx2, ry2)

\* afw::geom::ellipses::PixelRegion: its box and, for row y, the span
\* [y, x0, x1] of the pixels whose centre lies in the ellipse (x1 < x0 when
\* there is none)
PixelRegionBBox(e) == computeBBox(e)

PixelRegionSpan(e, y) ==
    LET b == computeBBox(e)
        xs == {x \in b.minX .. b.maxX : InsideEllipse(e, x, y)}
    IN IF xs = {} THEN [y |-> y, x0 |-> b.minX, x1 |-> b.minX - 1]
       ELSE [y |-> y,
             x0 |-> CHOOSE x \in xs : \A z \in xs : x <= z,
             x1 |-> CHOOSE x \in xs : \A z \in xs : x >= z]

\* SincCoeffs<T>::get(core, 0.0) shifted by afw::math::offsetImage to the
\* centre of the ellipse: the box of the coefficient image reaches two
\* pixels beyond the semi-major axis on every side
SincCoeffsBBox(e) ==
    LET h == CeilDiv(e.a, FX) + 2
        cx == FloorDiv(e.x + FX \div 2, FX)
        cy == FloorDiv(e.y + FX \div 2, FX)
    IN [minX |-> cx - h, minY |-> cy - h, maxX |-> cx + h, maxY |-> cy + h]

\* the coefficient of pixel (x, y): one in the aperture, a small sidelobe of
\* alternating sign outside it
SincCoeff(e, x, y) ==
    IF InsideEllipse(e, x, y) THEN FX
    ELSE IF (x + y) % 2 = 0 THEN FX \div 16 ELSE -(FX \div 16)

(***************************************************************************)
(* Images for the aperture fluxes: [x0, y0, width, height, masked, pix,    *)
(* var].  pix and var are arrays indexed from 0 by column and row; masked  *)
(* says that the image is a MaskedImage (it has a variance plane).         *)
(***************************************************************************)
getBBox(image) ==
    [minX |-> image.x0, minY |-> image.y0,
     maxX |-> image.x0 + image.width - 1, maxY |-> image.y0 + image.height - 1]

\* *image.x_at(col, row) and the same for the variance plane
x_at(image, col, row) == image.pix[<<col, row>>] * FX

var_at(image, col, row) == image.var[<<col, row>>] * FX

FAILURE == "flag"

APERTURE_TRUNCATED == "flag_apertureTruncated"

SINC_COEFFS_TRUNCATED == "flag_sincCoeffsTruncated"

\* a default-constructed ApertureFluxAlgorithm::Result
NewResult == [instFlux |-> NaN, instFluxErr |-> NaN, flags |-> {}]

(***************************************************************************)
(* ApertureFlux.cc: getSincCoeffs, computeSincFlux                         *)
(***************************************************************************)
\* a variant that takes any clipping for a clipping of the aperture
getSincCoeffs_AlwaysTruncated(bbox, ellipse, result) ==
    LET cbox == SincCoeffsBBox(ellipse)
    IN IF ~BoxContains(bbox, cbox)
       THEN [cImage |-> BoxClip(cbox, bbox),
             result |-> [result EXCEPT
                            !.flags = @ \cup {SINC_COEFFS_TRUNCATED,
                                              APERTURE_TRUNCATED, FAILURE}]]
       ELSE [cImage |-> cbox, result |-> result]

\* the box of the coefficient image returned and the result with its flags
getSincCoeffs(bbox, ellipse, result) ==
    LET cbox == SincCoeffsBBox(ellipse)
    IN IF ~BoxContains(bbox, cbox)
       THEN LET overlap == BoxClip(cbox, bbox)
                truncated == ~BoxContains(overlap, computeBBox(ellipse))
            IN [cImage |-> overlap,
                result |-> [result EXCEPT
                               !.flags = @ \cup {SINC_COEFFS_TRUNCATED}
                                   \cup (IF truncated
                                         THEN {APERTURE_TRUNCATED, FAILURE}
                                         ELSE {})]]
       ELSE [cImage |-> cbox, result |-> result]

\* (subImage * cImage).sum() and (variance * cImage.square()).sum() over the
\* rows of the box
SincSums(image, ellipse, box) ==
    LET w == box.maxX - box.minX + 1
        n == w * (box.maxY - box.minY + 1)
        term(k) ==
            LET x == box.minX + (k % w)
                y == box.minY + (k \div w)
                c == SincCoeff(ellipse, x, y)
            IN [flux |-> FxMul(x_at(image, x - image.x0, y - image.y0), c),
                var |-> IF image.masked
                        THEN FxMul(var_at(image, x - image.x0, y - image.y0),
                                   FxMul(c, c))
                        ELSE 0]
        RECURSIVE Acc(_, _)
        Acc(lo, hi) ==
            IF lo = hi THEN term(lo)
            ELSE LET l == Acc(lo, (lo + hi) \div 2)
                     r == Acc(((lo + hi) \div 2) + 1, hi)
                 IN [flux |-> l.flux + r.flux, var |-> l.var + r.var]
    IN IF BoxIsEmpty(box) THEN [flux |-> 0, var |-> 0] ELSE Acc(0, n - 1)

\* a variant without the early return of lines 147 and 161
computeSincFlux_NoEarlyReturn(image, ellipse, ctrl) ==
    LET g == getSincCoeffs(getBBox(image), ellipse, NewResult)
        s == SincSums(image, ellipse, g.cImage)
    IN [g.result EXCEPT
          !.instFlux = Num(s.flux),
          !.instFluxErr = IF image.masked THEN Num(FxSqrt(s.var)) ELSE @]

computeSincFlux(image, ellipse, ctrl) ==
    LET g == getSincCoeffs(getBBox(image), ellipse, NewResult)
    IN IF APERTURE_TRUNCATED \in g.result.flags THEN g.result
       ELSE LET s == SincSums(image, ellipse, g.cImage)
            IN [g.result EXCEPT
                  !.instFlux = Num(s.flux),
                  !.instFluxErr = IF image.masked THEN Num(FxSqrt(s.var)) ELSE @]

(***************************************************************************)
(* ApertureFlux.cc: computeNaiveFlux                                       *)
(***************************************************************************)
\* std::accumulate over one span, of the image and of the variance
SpanSums(image, span) ==
    LET RECURSIVE Acc(_)
        Acc(x) ==
            IF x > span.x1 THEN [flux |-> 0, var |-> 0]
            ELSE LET rest == Acc(x + 1)
                 IN [flux |-> x_at(image, x - image.x0, span.y - image.y0)
                                  + rest.flux,
                     var |-> (IF image.masked
                              THEN var_at(image, x - image.x0, span.y - image.y0)
                              ELSE 0) + rest.var]
    IN Acc(span.x0)

\* the loop over the spans of the region
NaiveSums(image, ellipse) ==
    LET box == PixelRegionBBox(ellipse)
        RECURSIVE Acc(_)
        Acc(y) ==
            IF y > box.maxY THEN [flux |-> 0, var |-> 0]
            ELSE LET s == SpanSums(image, PixelRegionSpan(ellipse, y))
                     rest == Acc(y + 1)
                 IN [flux |-> s.flux + rest.flux, var |-> s.var + rest.var]
    IN Acc(box.minY)

\* a variant that does not set FAILURE
computeNaiveFlux_NoFailure(image, ellipse, ctrl) ==
    IF ~BoxContains(getBBox(image), PixelRegionBBox(ellipse))
    THEN [NewResult EXCEPT !.flags = {APERTURE_TRUNCATED}]
    ELSE LET s == NaiveSums(image, ellipse)
         IN [NewResult EXCEPT
               !.instFlux = Num(s.flux),
               !.instFluxErr = IF image.masked THEN Num(FxSqrt(s.var)) ELSE @]

computeNaiveFlux(image, ellipse, ctrl) ==
    IF ~BoxContains(getBBox(image), PixelRegionBBox(ellipse))
    THEN [NewResult EXCEPT !.flags = {APERTURE_TRUNCATED, FAILURE}]
    ELSE LET s == NaiveSums(image, ellipse)
         IN [NewResult EXCEPT
               !.instFlux = Num(s.flux),
               !.instFluxErr = IF image.masked THEN Num(FxSqrt(s.var)) ELSE @]

(***************************************************************************)
(* ApertureFlux.cc: computeFlux                                            *)
(***************************************************************************)
\* a variant that sends b = maxSincRadius to the naive sum
computeFlux_Strict(image, ellipse, ctrl) ==
    IF getB(ellipse) < ctrl.maxSincRadius
    THEN computeSincFlux(image, ellipse, ctrl)
    ELSE computeNaiveFlux(image, ellipse, ctrl)

computeFlux(image, ellipse, ctrl) ==
    IF getB(ellipse) <= ctrl.maxSincRadius
    THEN computeSincFlux(image, ellipse, ctrl)
    ELSE computeNaiveFlux(image, ellipse, ctrl)

(***************************************************************************)
(* The aperture fluxes explored                                            *)
(***************************************************************************)
ImageSide == 9                 \* the images are ImageSide x ImageSide

ApPixels == (0 .. ImageSide - 1) \X (0 .. ImageSide - 1)

\* a plain Image at the origin, a MaskedImage at the origin and a
\* MaskedImage whose origin is (10, 20)
ApImages ==
    {[x0 |-> 0, y0 |-> 0, width |-> ImageSide, height |-> ImageSide,
      masked |-> FALSE,
      pix |-> [p \in ApPixels |-> 1 + ((p[1] + 2 * p[2]) % 3)],
      var |-> [p \in ApPixels |-> 0]],
     [x0 |-> 0, y0 |-> 0, width |-> ImageSide, height |-> ImageSide,
      masked |-> TRUE,
      pix |-> [p \in ApPixels |-> (p[1] % 2) + (p[2] % 3) - 1],
      var |-> [p \in ApPixels |-> 1 + (p[1] % 2)]],
     [x0 |-> 10, y0 |-> 20, width |-> ImageSide, height |-> ImageSide,
      masked |-> TRUE,
      pix |-> [p \in ApPixels |-> 2 + ((2 * p[1] + p[2]) % 4)],
      var |-> [p \in ApPixels |-> 1 + (p[2] % 3)]]}

\* centres relative to the origin of the image
ApCentres ==
    {<<4 * FX, 4 * FX>>, <<3 * FX, 4 * FX>>, <<FX, 4 * FX>>,
     <<(9 * FX) \div 2, 4 * FX>>, <<4 * FX, 7 * FX>>, <<6 * FX, 5 * FX>>}

\* (a, b, theta)
ApCores ==
    {<<FX, FX, 0>>, <<2 * FX, 2 * FX, 0>>, <<2 * FX, FX, 0>>,
     <<2 * FX, FX, 90>>, <<3 * FX, 2 * FX, 90>>, <<(5 * FX) \div 2, 2 * FX, 0>>}

InitAperture ==
    /\ pc = "call"
    /\ \E call \in {"computeFlux", "computeSincFlux", "computeNaiveFlux"},
          image \in ApImages, c \in ApCentres, core \in ApCores,
          maxSincRadius \in {FX, 2 * FX} :
         arg = [call |-> call, image |-> image,
                ellipse |-> [x |-> image.x0 * FX + c[1],
                             y |-> image.y0 * FX + c[2],
                             a |-> core[1], b |-> core[2], theta |-> core[3]],
                ctrl |-> [maxSincRadius |-> maxSincRadius]]
    /\ ret = "none"
    /\ am = NewLocals
    /\ shape = NewShape
    /\ schema = {}
    /\ mapper = {}
    /\ record = NewRecord

AP_computeFlux ==
    /\ pc = "call"
    /\ arg.call = "computeFlux"
    /\ ret' = computeFlux(arg.image, arg.ellipse, arg.ctrl)
    /\ pc' = "done"
    /\ UNCHANGED <<arg, am, shape, schema, mapper, record>>

AP_computeSincFlux ==
    /\ pc = "call"
    /\ arg.call = "computeSincFlux"
    /\ ret' = computeSincFlux(arg.image, arg.ellipse, arg.ctrl)
    /\ pc' = "done"
    /\ UNCHANGED <<arg, am, shape, schema, mapper, record>>

AP_computeNaiveFlux ==
    /\ pc = "call"
    /\ arg.call = "computeNaiveFlux"
    /\ ret' = computeNaiveFlux(arg.image, arg.ellipse, arg.ctrl)
    /\ pc' = "done"
    /\ UNCHANGED <<arg, am, shape, schema, mapper, record>>

NextAperture ==
    \/ AP_computeFlux
    \/ AP_computeSincFlux
    \/ AP_computeNaiveFlux

SpecAperture == InitAperture /\ [][NextAperture]_vars

(***************************************************************************)
(* Properties of the aperture fluxes                                       *)
(***************************************************************************)
\* the sum of f over the finite set S
RECURSIVE SetSum(_, _)
SetSum(S, f) ==
    IF S = {} THEN 0
    ELSE LET p == CHOOSE q \in S : TRUE
         IN f[p] + SetSum(S \ {p}, f)

\* the value and the variance of the pixel at (parent) position p
PixelValue(image) ==
    [p \in BoxPixels(getBBox(image)) |->
        image.pix[<<p[1] - image.x0, p[2] - image.y0>>] * FX]

PixelVariance(image) ==
    [p \in BoxPixels(getBBox(image)) |->
        image.var[<<p[1] - image.x0, p[2] - image.y0>>] * FX]

\* C1: computeFlux returns what computeSincFlux returns when
\* b <= maxSincRadius (b = maxSincRadius included) and what computeNaiveFlux
\* returns when b > maxSincRadius
C1_Dispatch ==
    (pc = "done" /\ arg.call = "computeFlux")
        => /\ (arg.ellipse.b <= arg.ctrl.maxSincRadius)
                  => ret = computeSincFlux(arg.image, arg.ellipse, arg.ctrl)
           /\ (arg.ellipse.b > arg.ctrl.maxSincRadius)
                  => ret = computeNaiveFlux(arg.image, arg.ellipse, arg.ctrl)

C1_Witness ==
    /\ pc = "done" /\ arg.call = "computeFlux"
    /\ arg.ellipse.b = arg.ctrl.maxSincRadius
    /\ ret = computeSincFlux(arg.image, arg.ellipse, arg.ctrl)
    /\ ret # computeNaiveFlux(arg.image, arg.ellipse, arg.ctrl)

\* C2: computeNaiveFlux sets APERTURE_TRUNCATED and FAILURE and leaves the
\* fluxes as constructed when the box of the pixel region is not inside the
\* box of the image; otherwise it sets no flag, instFlux is the sum of the
\* pixels of the region and, for a MaskedImage, instFluxErr is the square
\* root of the sum of their variances
C2_NaiveFlux ==
    (pc = "done" /\ arg.call = "computeNaiveFlux")
        => LET box == getBBox(arg.image)
               rbox == computeBBox(arg.ellipse)
               inside == /\ rbox.minX >= box.minX /\ rbox.maxX <= box.maxX
                         /\ rbox.minY >= box.minY /\ rbox.maxY <= box.maxY
               region == {p \in BoxPixels(rbox) :
                             InsideEllipse(arg.ellipse, p[1], p[2])}
           IN IF ~inside
              THEN /\ ret.flags = {APERTURE_TRUNCATED, FAILURE}
                   /\ ret.instFlux = NewResult.instFlux
                   /\ ret.instFluxErr = NewResult.instFluxErr
              ELSE /\ ret.flags = {}
                   /\ ret.instFlux = Num(SetSum(region, PixelValue(arg.image)))
                   /\ ret.instFluxErr =
                          IF arg.image.masked
                          THEN Num(FxSqrt(SetSum(region, PixelVariance(arg.image))))
                          ELSE NewResult.instFluxErr

C2_Witness ==
    /\ pc = "done" /\ arg.call = "computeNaiveFlux"
    /\ ret.flags = {APERTURE_TRUNCATED, FAILURE}
    /\ ret.instFlux.nan
    /\ arg.image.masked

\* the sum of pixel times coefficient over the pixels of a box
SincFluxOver(image, ellipse, box) ==
    SetSum(BoxPixels(box),
           [p \in BoxPixels(box) |->
               FxMul(PixelValue(image)[p], SincCoeff(ellipse, p[1], p[2]))])

\* C3: computeSincFlux sets no flag when the coefficient image is inside the
\* image; only SINC_COEFFS_TRUNCATED, with the flux summed over the clipped
\* overlap, when it is not but the overlap holds the box of the ellipse; and
\* all three flags, with no flux, when the overlap does not hold that box
C3_SincFlux ==
    (pc = "done" /\ arg.call = "computeSincFlux")
        => LET box == getBBox(arg.image)
               cbox == SincCoeffsBBox(arg.ellipse)
               ebox == computeBBox(arg.ellipse)
               overlap == BoxClip(cbox, box)
           IN IF BoxContains(box, cbox)
              THEN /\ ret.flags = {}
                   /\ ret.instFlux = Num(SincFluxOver(arg.image, arg.ellipse, cbox))
              ELSE IF BoxContains(overlap, ebox)
              THEN /\ ret.flags = {SINC_COEFFS_TRUNCATED}
                   /\ ret.instFlux =
                          Num(SincFluxOver(arg.image, arg.ellipse, overlap))
              ELSE /\ ret.flags = {SINC_COEFFS_TRUNCATED, APERTURE_TRUNCATED,
                                   FAILURE}
                   /\ ret.instFlux = NewResult.instFlux
                   /\ ret.instFluxErr = NewResult.instFluxErr

C3_Witness ==
    /\ pc = "done" /\ arg.call = "computeSincFlux"
    /\ ret.flags = {SINC_COEFFS_TRUNCATED}
    /\ ~ret.instFlux.nan
    /\ ret.instFlux # Num(SincFluxOver(arg.image, arg.ellipse,
                                       computeBBox(arg.ellipse)))

(***************************************************************************)
(* ApertureFlux.cc: the fields of ApertureFluxAlgorithm and the mappings   *)
(* of ApertureFluxTransform.  A field name is <<prefix, suffix>>, read     *)
(* "prefix_suffix".                                                        *)
(***************************************************************************)
\* getFlagDefinitions(): the flags in the order of their definition
getFlagDefinitions == <<FAILURE, APERTURE_TRUNCATED, SINC_COEFFS_TRUNCATED>>

\* "%s_%.1f" with "." replaced by "_": the name, the whole part and the
\* first decimal of the radius rounded to one decimal
makeFieldPrefix(name, radius) ==
    LET tenths == RoundDiv(radius * 10, FX)
    IN <<name, tenths \div 10, tenths % 10>>

\* Schema::addField for each name of a set: it throws when a name is
\* already in the schema
addFields(sch, names) ==
    IF names \cap sch # {}
    THEN [thrown |-> TRUE, schema |-> sch]
    ELSE [thrown |-> FALSE, schema |-> sch \cup names]

\* Keys::Keys (lines 62-69): the two flux fields, then one field per flag
\* that is not in the exclusion list
Keys(sch, prefix, isSinc) ==
    LET excluded == IF isSinc THEN {} ELSE {SINC_COEFFS_TRUNCATED}
        flux == addFields(sch, {<<prefix, "instFlux">>, <<prefix, "instFluxErr">>})
        flagNames == {<<prefix, getFlagDefinitions[j]>> :
                         j \in {k \in DOMAIN getFlagDefinitions :
                                   getFlagDefinitions[k] \notin excluded}}
    IN IF flux.thrown THEN flux ELSE addFields(flux.schema, flagNames)

\* the loop of the constructor of ApertureFluxAlgorithm from radius i on
RECURSIVE ApertureFluxAlgorithm(_, _, _, _)
ApertureFluxAlgorithm(ctrl, name, sch, i) ==
    IF i > Len(ctrl.radii) THEN [thrown |-> FALSE, schema |-> sch]
    ELSE LET k == Keys(sch, makeFieldPrefix(name, ctrl.radii[i]),
                       ctrl.radii[i] <= ctrl.maxSincRadius)
         IN IF k.thrown THEN k
            ELSE ApertureFluxAlgorithm(ctrl, name, k.schema, i + 1)

\* a variant that also skips the sinc flag of a radius equal to
\* maxSincRadius
TransformSkips_AtThreshold(ctrl, i, flag) ==
    ctrl.radii[i] >= ctrl.maxSincRadius /\ flag = SINC_COEFFS_TRUNCATED

\* lines 260-263: the test that skips a flag
TransformSkips(ctrl, i, flag) ==
    ctrl.radii[i] > ctrl.maxSincRadius /\ flag = SINC_COEFFS_TRUNCATED

\* the loops of the constructor of ApertureFluxTransform from radius i and
\* flag j on; find() throws when the input schema has no such field
RECURSIVE ApertureFluxTransform(_, _, _, _, _, _)
ApertureFluxTransform(ctrl, name, sch, map, i, j) ==
    IF i > Len(ctrl.radii) THEN [thrown |-> FALSE, mapper |-> map]
    ELSE IF j > Len(getFlagDefinitions)
    THEN ApertureFluxTransform(ctrl, name, sch, map, i + 1, 1)
    ELSE IF TransformSkips(ctrl, i, getFlagDefinitions[j])
    THEN ApertureFluxTransform(ctrl, name, sch, map, i, j + 1)
    ELSE LET field == <<makeFieldPrefix(name, ctrl.radii[i]),
                        getFlagDefinitions[j]>>
         IN IF field \notin sch THEN [thrown |-> TRUE, mapper |-> map]
            ELSE ApertureFluxTransform(ctrl, name, sch, map \cup {field},
                                       i, j + 1)

MaxRadii == 2                  \* up to MaxRadii radii are configured

\* radii on, just below and just above a tenth and a threshold
RadiusValues ==
    {3 * FX, 3 * FX + 10, 10 * FX - 10, 10 * FX, 10 * FX + 10, 12 * FX}

RECURSIVE SeqsUpTo(_, _)
SeqsUpTo(S, n) ==
    IF n = 0 THEN {<<>>}
    ELSE LET shorter == SeqsUpTo(S, n - 1)
         IN shorter \cup {Append(q, v) : q \in shorter, v \in S}

InitFields ==
    /\ pc = "new"
    /\ \E radii \in SeqsUpTo(RadiusValues, MaxRadii) \ {<<>>},
          maxSincRadius \in {3 * FX, 10 * FX} :
         arg = [name |-> "base_CircularApertureFlux",
                ctrl |-> [radii |-> radii, maxSincRadius |-> maxSincRadius]]
    /\ ret = "none"
    /\ am = NewLocals
    /\ shape = NewShape
    /\ schema = {}
    /\ mapper = {}
    /\ record = NewRecord

\* ApertureFluxAlgorithm::ApertureFluxAlgorithm
ALG_Construct ==
    /\ pc = "new"
    /\ LET alg == ApertureFluxAlgorithm(arg.ctrl, arg.name, schema, 1)
       IN /\ schema' = alg.schema
          /\ pc' = IF alg.thrown THEN "done" ELSE "algorithm"
          /\ ret' = IF alg.thrown THEN "InvalidParameterError" ELSE ret
    /\ UNCHANGED <<arg, am, shape, mapper, record>>

\* ApertureFluxTransform::ApertureFluxTransform over the schema of the
\* algorithm
TR_Construct ==
    /\ pc = "algorithm"
    /\ LET tr == ApertureFluxTransform(arg.ctrl, arg.name, schema, mapper, 1, 1)
       IN /\ mapper' = tr.mapper
          /\ ret' = IF tr.thrown THEN "NotFoundError" ELSE "transform"
    /\ pc' = "done"
    /\ UNCHANGED <<arg, am, shape, schema, record>>

NextFields ==
    \/ ALG_Construct
    \/ TR_Construct

SpecFields == InitFields /\ [][NextFields]_vars

\* C4: once the algorithm is constructed every radius r has its FAILURE and
\* APERTURE_TRUNCATED fields and has a SINC_COEFFS_TRUNCATED field iff
\* r <= maxSincRadius; the transform finds every field it looks up and maps
\* exactly the flag fields of the schema
C4_FlagFields ==
    /\ (pc = "algorithm" \/ (pc = "done" /\ ret # "InvalidParameterError"))
           => \A i \in DOMAIN arg.ctrl.radii :
                 LET r == arg.ctrl.radii[i]
                     prefix == makeFieldPrefix(arg.name, r)
                 IN /\ <<prefix, FAILURE>> \in schema
                    /\ <<prefix, APERTURE_TRUNCATED>> \in schema
                    /\ (<<prefix, SINC_COEFFS_TRUNCATED>> \in schema)
                           <=> (r <= arg.ctrl.maxSincRadius)
    /\ (pc = "done" /\ ret # "InvalidParameterError")
           => /\ ret = "transform"
              /\ mapper = {f \in schema :
                              f[2] \in {FAILURE, APERTURE_TRUNCATED,
                                        SINC_COEFFS_TRUNCATED}}

C4_Witness ==
    /\ pc = "done" /\ ret = "transform"
    /\ \E i, j \in DOMAIN arg.ctrl.radii :
          /\ arg.ctrl.radii[i] = arg.ctrl.maxSincRadius
          /\ arg.ctrl.radii[j] > arg.ctrl.maxSincRadius
          /\ <<makeFieldPrefix(arg.name, arg.ctrl.radii[i]),
               SINC_COEFFS_TRUNCATED>> \in mapper
          /\ <<makeFieldPrefix(arg.name, arg.ctrl.radii[j]),
               SINC_COEFFS_TRUNCATED>> \notin schema

(***************************************************************************)
(* SdssShape.cc: SdssShapeResult and SdssShapeAlgorithm::apply for a       *)
(* MaskedImage.  The image has its origin at (x0, y0) of the parent; the   *)
(* solver works in the coordinates of the image.                           *)
(***************************************************************************)
\* an elongated diagonal object: its adaptive moments have a determinant
\* that is positive in double and vanishes in float
ImgDiag ==
    [width |-> 7, height |-> 7, var |-> Num(FX),
     pix |-> (<<4, 4>> :> 8 @@ <<5, 5>> :> 3 @@ <<6, 6>> :> 5
              @@ <<3, 4>> :> 1)]

\* SdssShapeResult as its constructors leave it: every number is NaN, no
\* flag is set.  sigma stands for xxSigma, yySigma and xySigma, fluxCov for
\* flux_xx_Cov, flux_yy_Cov and flux_xy_Cov
NewShapeResult ==
    [x |-> NaN, y |-> NaN, xx |-> NaN, yy |-> NaN, xy |-> NaN,
     instFlux |-> NaN, xy4 |-> NaN, sigma |-> "unset", fluxCov |-> "unset",
     flags |-> {}]

\* a NaN-able number plus an offset
Shifted(n, d) == IF n.nan THEN NaN ELSE Num(n.v + d)

\* lines 899-904: the clamp of control.maxShift
clampShift(maxShift) ==
    IF maxShift < 2 * FX THEN 2 * FX
    ELSE IF maxShift > 10 * FX THEN 10 * FX
    ELSE maxShift

\* lines 896-898
APPLY_Start ==
    /\ pc = "apply"
    /\ arg' = [arg EXCEPT !.xcen = arg.center[1] - arg.x0,
                          !.ycen = arg.center[2] - arg.y0,
                          !.shiftmax = clampShift(arg.maxShift)]
    /\ pc' = "start"
    /\ UNCHANGED <<ret, am, shape, schema, mapper, record>>

\* the handler of line 912 catches pex::exceptions::Exception, the base of
\* every exception the solver throws
applyCatch_Nothing(outcome) == FALSE

applyCatch(outcome) == outcome = "throw"

\* detail::SdssShapeImpl::Flag, in the order of the enumeration
SolverFlags == <<UNWEIGHTED_BAD, UNWEIGHTED, SHIFT, MAXITER>>

\* lines 751-757: the flags of the result, in the order of flagDefs
ResultFlags == <<FAILURE, UNWEIGHTED_BAD, UNWEIGHTED, SHIFT, MAXITER>>

\* a variant that writes result.flags[n]
copyFlags_SameIndex(flags) ==
    UNION {IF SolverFlags[n + 1] \in flags
           THEN {ResultFlags[n + 1], ResultFlags[1]} ELSE {} :
             n \in 0..(Len(SolverFlags) - 1)}

\* lines 932-937: solver flag n sets result.flags[n + 1] and FAILURE
copyFlags(flags) ==
    UNION {IF SolverFlags[n + 1] \in flags
           THEN {ResultFlags[n + 2], ResultFlags[1]} ELSE {} :
             n \in 0..(Len(SolverFlags) - 1)}

\* lines 918-937: what apply copies out of the SdssShapeImpl
copyResult(sh, x0, y0, caught) ==
    [NewShapeResult EXCEPT
        !.x = Shifted(sh.x, x0),
        !.y = Shifted(sh.y, y0),
        !.xx = sh.Ixx,
        !.yy = sh.Iyy,
        !.xy = sh.Ixy,
        !.sigma = sh.covar,
        !.flags = (IF caught THEN {FAILURE} ELSE {}) \cup copyFlags(sh.flags)]

\* lines 909-938: the solver has returned or thrown.  thrown says that the
\* exception left apply, caught that the handler ran
APPLY_Finish ==
    /\ pc = "done"
    /\ IF ret = "throw" /\ ~applyCatch(ret)
       THEN ret' = [thrown |-> TRUE, caught |-> FALSE,
                    result |-> NewShapeResult]
       ELSE ret' = [thrown |-> FALSE, caught |-> (ret = "throw"),
                    result |-> copyResult(shape, arg.x0, arg.y0,
                                          ret = "throw")]
    /\ pc' = "returned"
    /\ UNCHANGED <<arg, am, shape, schema, mapper, record>>

\* ImgFlat has no variance plane; the last two are ImgBlob with a negative
\* variance and without a variance plane
ApplyImages ==
    {ImgBlob, ImgNeg, ImgFlat, ImgDiag, [ImgBlob EXCEPT !.var = Num(-FX)],
     [ImgBlob EXCEPT !.var = NaN]}

Origins == {<<0, 0>>, <<2, 5>>}

InitApply ==
    /\ pc = "apply"
    /\ \E image \in ApplyImages, c \in Centres \cup {<<-1, 3>>}, o \in Origins,
          cenNaN \in BOOLEAN, maxShift \in {FX, 5 * FX, 12 * FX},
          maxIter \in 0..MaxIterBound, tol \in {2, 16} :
         /\ cenNaN => c = <<3, 3>>
         /\ arg = [image |-> image, x0 |-> o[1] * FX, y0 |-> o[2] * FX,
                   center |-> <<(c[1] + o[1]) * FX, (c[2] + o[2]) * FX>>,
                   maxShift |-> maxShift, xcen |-> 0, ycen |-> 0,
                   cenNaN |-> cenNaN, bkgd |-> 0, shiftmax |-> 0,
                   maxIter |-> maxIter, tol1 |-> tol, tol2 |-> tol]
    /\ am = NewLocals
    /\ shape = NewShape
    /\ ret = "none"
    /\ schema = {}
    /\ mapper = {}
    /\ record = NewRecord

NextApply ==
    \/ APPLY_Start
    \/ NextMoments
    \/ APPLY_Finish

SpecApply == InitApply /\ [][NextApply]_vars

\* C11: when apply has returned, no exception of the solver has left it, and
\* if the solver threw (the domain error of calc_fisher) the result has
\* FAILURE set
C11_SolverExceptionCaught ==
    pc = "returned"
        => /\ ~ret.thrown
           /\ ret.caught => FAILURE \in ret.result.flags

\* the solver converged on ImgDiag and calc_fisher threw; apply returned
C11_Witness ==
    /\ pc = "returned"
    /\ ret.caught
    /\ am.exit = "converged"
    /\ shape.flags = {}
    /\ ret.result.flags = {FAILURE}

(***************************************************************************)
(* SdssShape.cc: calc_fisher called on its own, and                        *)
(* detail::getFixedMomentsFlux                                             *)
(***************************************************************************)
\* SdssShapeImpl::getFluxScale: 2 pi sqrt(det) of the moments
getFluxScale(sh) ==
    LET det == FxMul(sh.Ixx.v, sh.Iyy.v) - FxMul(sh.Ixy.v, sh.Ixy.v)
    IN 2 * FxMul(PI, FxSqrt(Max(det, 0)))

\* the pair (NaN, NaN) of line 707
NaNPair == [error |-> "none", flux |-> NaN, fluxErr |-> NaN]

\* moments (Ixx, Ixy, Iyy): round, elliptical, singular, the converged
\* moments of ImgDiag, and a negative determinant
FixedShapes ==
    {<<FX, 0, FX>>, <<2 * FX, FX, 2 * FX>>, <<FX, FX, FX>>,
     <<1182, 1132, 1089>>, <<FX, 2 * FX, FX>>}

\* the variance at the centre: none (a plain Image), positive, zero, negative
Variances == {NaN, Num(FX), Num(3 * FX), Num(0), Num(-FX)}

ShapeOf(m) == [NewShape EXCEPT !.Ixx = Num(m[1]), !.Ixy = Num(m[2]),
                               !.Iyy = Num(m[3]), !.I0 = Num(FX)]

InitFixed ==
    /\ pc \in {"fisher", "fixed"}
    /\ \E image \in {ImgBlob, ImgSingle, ImgDiag}, c \in Centres,
          o \in Origins, m \in FixedShapes, v \in Variances :
         arg = [image |-> [image EXCEPT !.var = v], x0 |-> o[1] * FX,
                y0 |-> o[2] * FX, bkgd |-> 0, xcen |-> (c[1] + o[1]) * FX,
                ycen |-> (c[2] + o[2]) * FX, shape |-> ShapeOf(m)]
    /\ am = NewLocals
    /\ shape = NewShape
    /\ ret = "none"
    /\ schema = {}
    /\ mapper = {}
    /\ record = NewRecord

\* calc_fisher(shape, bkgd_var)
CF_Call ==
    /\ pc = "fisher"
    /\ ret' = calc_fisher(arg.shape, arg.image.var)
    /\ pc' = "done"
    /\ UNCHANGED <<arg, am, shape, schema, mapper, record>>

\* getFixedMomentsFlux, lines 699-720: the box, the weights and the
\* calcmom<true> pass.  xcen, ycen are in parent coordinates; shape is the
\* mutable copy of the argument
FMF_Calcmom ==
    /\ pc = "fixed"
    /\ LET shape_ == arg.shape
           bbox == set_amom_bbox(arg.image.width, arg.image.height,
                                 arg.xcen, arg.ycen, shape_.Ixx.v, shape_.Iyy.v)
       IN \E weights \in {getWeights(shape_.Ixx.v, shape_.Ixy.v,
                                     shape_.Iyy.v, TRUE)} :
            IF ~weights.ok
            THEN /\ ret' = NaNPair
                 /\ pc' = "flux"
                 /\ shape' = shape_
            ELSE \E r \in {calcmom(TRUE, arg.image, arg.xcen - arg.x0,
                                   arg.ycen - arg.y0, bbox, arg.bkgd,
                                   shouldInterp(shape_.Ixx.v, shape_.Iyy.v,
                                                weights.det),
                                   weights.w11, weights.w12, weights.w22)} :
                   /\ shape' = [shape_ EXCEPT
                                   !.I0 = IF r.wrote THEN r.I0 ELSE Num(0)]
                   /\ pc' = "fixedFisher"
                   /\ ret' = ret
    /\ UNCHANGED <<arg, am, schema, mapper, record>>

\* getFixedMomentsFlux, lines 725-737.  fluxErr is I0Err*scale, with I0Err
\* taken from the inverse of the Fisher matrix: it is a number iff F is one
\* (Num(0) stands for it)
FMF_Fisher ==
    /\ pc = "fixedFisher"
    /\ \E fisher \in {calc_fisher(shape, arg.image.var)} :
         IF fisher.error # "none"
         THEN /\ ret' = [error |-> fisher.error, flux |-> NaN, fluxErr |-> NaN]
              /\ shape' = shape
         ELSE /\ ret' = [error |-> "none",
                         flux |-> IF shape.I0.nan THEN NaN
                                  ELSE Num(FxMul(shape.I0.v, getFluxScale(shape))),
                         fluxErr |-> IF fisher.F.nan THEN NaN ELSE Num(0)]
              /\ shape' = [shape EXCEPT
                              !.covar = IF fisher.F.nan THEN "nan" ELSE "set"]
    /\ pc' = "flux"
    /\ UNCHANGED <<arg, am, schema, mapper, record>>

NextFixed ==
    \/ CF_Call
    \/ FMF_Calcmom
    \/ FMF_Fisher

SpecFixed == InitFixed /\ [][NextFixed]_vars

\* the determinant of the moments as a double, and as calc_fisher sees it
DoubleDet(sh) == FxMul(sh.Ixx.v, sh.Iyy.v) - FxMul(sh.Ixy.v, sh.Ixy.v)

FloatDet(sh) ==
    ToFloat(ToFloat(FxMul(ToFloat(sh.Ixx.v), ToFloat(sh.Iyy.v)))
            - ToFloat(FxMul(ToFloat(sh.Ixy.v), ToFloat(sh.Ixy.v))))

VarianceNotPositive(v) == ~v.nan /\ v.v <= 0

\* C12 as stated: whenever D > epsilon and bkgd_var > 0 do not both hold,
\* calc_fisher and getFixedMomentsFlux signal a domain error
C12_DomainErrorUnlessBoth ==
    (pc \in {"done", "flux"}
     /\ ~(DoubleDet(arg.shape) > 0 /\ ~arg.image.var.nan /\ arg.image.var.v > 0))
        => ret.error = "DomainError"

\* C12, amended: calc_fisher signals a domain error exactly when the float
\* determinant is not above epsilon or the variance is a number that is not
\* positive, and a variance that is NaN gives a matrix of NaN instead;
\* getFixedMomentsFlux returns (NaN, NaN) without an error when getWeights
\* rejects the moments, and otherwise signals exactly calc_fisher's error,
\* returning a flux with a NaN error for a NaN variance
C12_DomainErrors ==
    LET bad == FloatDet(arg.shape) <= 0 \/ VarianceNotPositive(arg.image.var)
    IN /\ pc = "done"
           => /\ (ret.error = "DomainError") <=> bad
              /\ (~bad /\ arg.image.var.nan) => ret.F.nan
       /\ pc = "flux"
           => /\ DoubleDet(arg.shape) <= 0
                     => ret.error = "none" /\ ret.flux.nan /\ ret.fluxErr.nan
              /\ DoubleDet(arg.shape) > 0
                     => /\ (ret.error = "DomainError") <=> bad
                        /\ (~bad /\ arg.image.var.nan)
                               => ~ret.flux.nan /\ ret.fluxErr.nan

\* a plain image and a good determinant: getFixedMomentsFlux returns a flux
C12_Witness ==
    /\ pc = "flux"
    /\ shape.covar = "nan"
    /\ arg.image.var.nan
    /\ FloatDet(arg.shape) > 0
    /\ ret.error = "none"
    /\ ~ret.flux.nan
    /\ ret.fluxErr.nan

(***************************************************************************)
(* InputUtilities.cc: extractPeak and SafeCentroidExtractor::operator().   *)
(* A call gives [outcome, value, record]: outcome is "return" or the       *)
(* exception thrown, record is the SourceRecord as the call leaves it.     *)
(***************************************************************************)
Thrown(e, rec) == [outcome |-> e, value |-> <<NaN, NaN>>, record |-> rec]

\* a variant that takes the last peak
extractPeak_LastPeak(rec) ==
    IF ~rec.footprint.present THEN Thrown("RuntimeError", rec)
    ELSE IF rec.footprint.peaks = <<>> THEN Thrown("RuntimeError", rec)
    ELSE LET peak == rec.footprint.peaks[Len(rec.footprint.peaks)]
         IN [outcome |-> "return", value |-> <<Num(peak[1]), Num(peak[2])>>,
             record |-> rec]

\* extractPeak (lines 63-80)
extractPeak(rec) ==
    IF ~rec.footprint.present THEN Thrown("RuntimeError", rec)
    ELSE IF rec.footprint.peaks = <<>> THEN Thrown("RuntimeError", rec)
    ELSE LET peak == rec.footprint.peaks[1]
         IN [outcome |-> "return", value |-> <<Num(peak[1]), Num(peak[2])>>,
             record |-> rec]

\* flags.setValue(record, flags.getFailureFlagNumber(), true)
setFailure(rec) == [rec EXCEPT !.flags = @ \cup {FAILURE}]

\* variants of the three tests below
peakWithoutFlagKey_Never(isCentroider) == FALSE

failureAfterPeak_Never(isCentroider) == FALSE

failureAfterPeak_Always(isCentroider) == TRUE

centroidFlagStillSet_Never(isCentroider, rec) == FALSE

\* line 98: without a centroid-flag key a centroider falls back to the peak
peakWithoutFlagKey(isCentroider) == isCentroider

\* line 120: a consumer sets its failure flag once the peak is extracted
failureAfterPeak(isCentroider) == ~isCentroider

\* lines 124-125: a usable value whose slot flag is set
centroidFlagStillSet(isCentroider, rec) ==
    ~isCentroider /\ rec.centroidFlagKey /\ rec.centroidFlag

\* SafeCentroidExtractor::operator() (lines 84-131)
SafeCentroidExtractor(isCentroider, rec) ==
    IF ~rec.centroidKey
    THEN IF isCentroider THEN extractPeak(rec)
         ELSE Thrown("FatalAlgorithmError", rec)
    ELSE IF rec.centroid[1].nan \/ rec.centroid[2].nan
    THEN IF ~rec.centroidFlagKey
         THEN IF peakWithoutFlagKey(isCentroider) THEN extractPeak(rec)
              ELSE Thrown("RuntimeError", rec)
         ELSE IF ~rec.centroidFlag /\ ~isCentroider
         THEN Thrown("RuntimeError", rec)
         ELSE LET result == extractPeak(rec)
              IN IF result.outcome # "return" THEN result
                 ELSE IF failureAfterPeak(isCentroider)
                 THEN [result EXCEPT !.record = setFailure(rec)]
                 ELSE result
    ELSE IF centroidFlagStillSet(isCentroider, rec)
    THEN [outcome |-> "return", value |-> rec.centroid,
          record |-> setFailure(rec)]
    ELSE [outcome |-> "return", value |-> rec.centroid, record |-> rec]

(***************************************************************************)
(* InputUtilities.cc: SafeShapeExtractor::operator()                       *)
(***************************************************************************)
EPSILON_INV == 10^6            \* 1/1.0e-6

\* lines 157-161: NaN, or Ixx*Iyy < (1 + 1.0e-6)*Ixy*Ixy
shapeRejected(q) ==
    \/ q.Ixx.nan \/ q.Iyy.nan \/ q.Ixy.nan
    \/ q.Ixx.v * q.Iyy.v * EPSILON_INV < (EPSILON_INV + 1) * q.Ixy.v * q.Ixy.v

\* a variant that throws a RuntimeError whatever the flag
rejectedShapeError_AlwaysRuntime(rec) == Thrown("RuntimeError", rec)

\* lines 163-182: the exception for a shape that is rejected
rejectedShapeError(rec) ==
    IF ~rec.shapeFlagKey THEN Thrown("RuntimeError", rec)
    ELSE IF ~rec.shapeFlag THEN Thrown("RuntimeError", rec)
    ELSE [Thrown("MeasurementError", rec) EXCEPT !.value = FAILURE]

shapeFlagStillSet_Never(rec) == FALSE

\* line 183
shapeFlagStillSet(rec) == rec.shapeFlagKey /\ rec.shapeFlag

\* SafeShapeExtractor::operator() (lines 149-189)
SafeShapeExtractor(rec) ==
    IF ~rec.shapeKey THEN Thrown("FatalAlgorithmError", rec)
    ELSE IF shapeRejected(rec.shapeSlot) THEN rejectedShapeError(rec)
    ELSE IF shapeFlagStillSet(rec)
    THEN [outcome |-> "return", value |-> rec.shapeSlot,
          record |-> setFailure(rec)]
    ELSE [outcome |-> "return", value |-> rec.shapeSlot, record |-> rec]

(***************************************************************************)
(* The records explored, and the two calls                                 *)
(***************************************************************************)
Coordinates == {NaN, Num(1), Num(4)}

Footprints ==
    {[present |-> FALSE, peaks |-> <<>>], [present |-> TRUE, peaks |-> <<>>],
     [present |-> TRUE, peaks |-> <<<<2, 3>>>>],
     [present |-> TRUE, peaks |-> <<<<2, 3>>, <<5, 1>>>>]}

Moments == {NaN, Num(0), Num(1), Num(2)}

\* flags of the record before the call: none, or one of another algorithm
PriorFlags == {{}, {"other_flag"}}

InitExtract ==
    /\ pc = "extract"
    /\ \/ \E isCentroider, centroidKey, centroidFlagKey, centroidFlag \in BOOLEAN,
             x, y \in Coordinates, fp \in Footprints, fl \in PriorFlags :
            arg = [op |-> "centroid", isCentroider |-> isCentroider,
                   record |-> [NewRecord EXCEPT
                                  !.centroidKey = centroidKey,
                                  !.centroidFlagKey = centroidFlagKey,
                                  !.centroid = <<x, y>>,
                                  !.centroidFlag = centroidFlag,
                                  !.footprint = fp,
                                  !.flags = fl]]
       \/ \E shapeKey, shapeFlagKey, shapeFlag \in BOOLEAN,
             xx, yy, xy \in Moments, fl \in PriorFlags :
            arg = [op |-> "shape", isCentroider |-> FALSE,
                   record |-> [NewRecord EXCEPT
                                  !.shapeKey = shapeKey,
                                  !.shapeFlagKey = shapeFlagKey,
                                  !.shapeSlot = [Ixx |-> xx, Iyy |-> yy,
                                                 Ixy |-> xy],
                                  !.shapeFlag = shapeFlag,
                                  !.flags = fl]]
    /\ record = arg.record
    /\ am = NewLocals
    /\ shape = NewShape
    /\ ret = "none"
    /\ schema = {}
    /\ mapper = {}

SCE_Call ==
    /\ pc = "extract"
    /\ arg.op = "centroid"
    /\ LET r == SafeCentroidExtractor(arg.isCentroider, record)
       IN /\ ret' = [outcome |-> r.outcome, value |-> r.value]
          /\ record' = r.record
    /\ pc' = "extracted"
    /\ UNCHANGED <<arg, am, shape, schema, mapper>>

SSE_Call ==
    /\ pc = "extract"
    /\ arg.op = "shape"
    /\ LET r == SafeShapeExtractor(record)
       IN /\ ret' = [outcome |-> r.outcome, value |-> r.value]
          /\ record' = r.record
    /\ pc' = "extracted"
    /\ UNCHANGED <<arg, am, shape, schema, mapper>>

NextExtract ==
    \/ SCE_Call
    \/ SSE_Call

SpecExtract == InitExtract /\ [][NextExtract]_vars

\* the call of SafeCentroidExtractor has ended
CentroidDone == pc = "extracted" /\ arg.op = "centroid"

\* the call of SafeShapeExtractor has ended
ShapeDone == pc = "extracted" /\ arg.op = "shape"

NaNCentroid(rec) == rec.centroid[1].nan \/ rec.centroid[2].nan

HasPeak(rec) == rec.footprint.present /\ rec.footprint.peaks # <<>>

FirstPeak(rec) ==
    <<Num(rec.footprint.peaks[1][1]), Num(rec.footprint.peaks[1][2])>>

\* C13: without a centroid slot a centroider returns the first peak of the
\* footprint, or raises a runtime error if the footprint is absent or has
\* no peaks; a consumer raises a fatal algorithm error; the flags of the
\* record are as they were
C13_NoCentroidSlot ==
    (CentroidDone /\ ~arg.record.centroidKey)
        => /\ record = arg.record
           /\ arg.isCentroider /\ HasPeak(arg.record)
                  => ret.outcome = "return" /\ ret.value = FirstPeak(arg.record)
           /\ arg.isCentroider /\ ~HasPeak(arg.record)
                  => ret.outcome = "RuntimeError"
           /\ ~arg.isCentroider => ret.outcome = "FatalAlgorithmError"

\* a centroider without a slot and a footprint of two peaks
C13_Witness ==
    /\ CentroidDone
    /\ ~arg.record.centroidKey
    /\ arg.isCentroider
    /\ Len(arg.record.footprint.peaks) = 2
    /\ ret.outcome = "return"
    /\ ret.value = <<Num(2), Num(3)>>

\* C14 as stated: a NaN slot centroid without a centroid-flag key raises a
\* runtime error in both modes
C14_NoFlagKeyIsError ==
    (CentroidDone /\ arg.record.centroidKey /\ NaNCentroid(arg.record)
     /\ ~arg.record.centroidFlagKey)
        => ret.outcome = "RuntimeError"

\* C14, amended: a NaN slot centroid without a centroid-flag key raises a
\* runtime error in consumer mode; in centroider mode the extractor falls
\* back to the first peak of the footprint (a runtime error if there is
\* none); no flag is set
C14_NoFlagKey ==
    (CentroidDone /\ arg.record.centroidKey /\ NaNCentroid(arg.record)
     /\ ~arg.record.centroidFlagKey)
        => /\ record = arg.record
           /\ ~arg.isCentroider => ret.outcome = "RuntimeError"
           /\ arg.isCentroider /\ HasPeak(arg.record)
                  => ret.outcome = "return" /\ ret.value = FirstPeak(arg.record)
           /\ arg.isCentroider /\ ~HasPeak(arg.record)
                  => ret.outcome = "RuntimeError"

\* a centroider, a NaN slot centroid, no flag key: the peak is returned
C14_Witness ==
    /\ CentroidDone
    /\ arg.record.centroidKey
    /\ arg.record.centroid[1].nan
    /\ ~arg.record.centroidFlagKey
    /\ arg.isCentroider
    /\ ret.outcome = "return"
    /\ ret.value = FirstPeak(arg.record)

\* C15: a consumer, a NaN slot centroid, a centroid-flag key: a runtime
\* error if the slot flag is not set; if it is set the first peak is
\* returned and the failure flag is set, and if no peak can be extracted a
\* runtime error is raised and the failure flag is not set
C15_ConsumerNaN ==
    (CentroidDone /\ ~arg.isCentroider /\ arg.record.centroidKey
     /\ NaNCentroid(arg.record) /\ arg.record.centroidFlagKey)
        => /\ ~arg.record.centroidFlag
                  => ret.outcome = "RuntimeError" /\ record = arg.record
           /\ arg.record.centroidFlag /\ HasPeak(arg.record)
                  => /\ ret.outcome = "return"
                     /\ ret.value = FirstPeak(arg.record)
                     /\ record = setFailure(arg.record)
           /\ arg.record.centroidFlag /\ ~HasPeak(arg.record)
                  => ret.outcome = "RuntimeError" /\ record = arg.record

C15_Witness ==
    /\ CentroidDone
    /\ ~arg.isCentroider
    /\ arg.record.centroidKey /\ arg.record.centroidFlagKey
    /\ NaNCentroid(arg.record)
    /\ arg.record.centroidFlag
    /\ ret.outcome = "return"
    /\ FAILURE \in record.flags
    /\ FAILURE \notin arg.record.flags

\* C16: a consumer and a slot centroid without NaN: the slot value is
\* returned, no error is raised, and the failure flag is set iff the
\* centroid-flag key exists and the slot flag is set
C16_ConsumerValue ==
    (CentroidDone /\ ~arg.isCentroider /\ arg.record.centroidKey
     /\ ~NaNCentroid(arg.record))
        => /\ ret.outcome = "return"
           /\ ret.value = arg.record.centroid
           /\ record = IF arg.record.centroidFlagKey /\ arg.record.centroidFlag
                       THEN setFailure(arg.record) ELSE arg.record

C16_Witness ==
    /\ CentroidDone
    /\ ~arg.isCentroider
    /\ arg.record.centroidKey /\ arg.record.centroidFlagKey
    /\ arg.record.centroidFlag
    /\ ret.outcome = "return"
    /\ ret.value = <<Num(1), Num(4)>>
    /\ record.flags = {"other_flag", FAILURE}

\* C17: a slot shape is returned only if no component is NaN and
\* Ixx*Iyy > (1 + 1e-6)*Ixy^2, strictly
C17_StrictValidity ==
    (ShapeDone /\ ret.outcome = "return")
        => /\ ~arg.record.shapeSlot.Ixx.nan
           /\ ~arg.record.shapeSlot.Iyy.nan
           /\ ~arg.record.shapeSlot.Ixy.nan
           /\ arg.record.shapeSlot.Ixx.v * arg.record.shapeSlot.Iyy.v * EPSILON_INV
                  > (EPSILON_INV + 1) * arg.record.shapeSlot.Ixy.v
                                      * arg.record.shapeSlot.Ixy.v

C19_ValidShape ==
    (ShapeDone /\ arg.record.shapeKey /\ ~shapeRejected(arg.record.shapeSlot))
        => /\ ret.outcome = "return"
           /\ ret.value = arg.record.shapeSlot
           /\ record = IF arg.record.shapeFlagKey /\ arg.record.shapeFlag
                       THEN setFailure(arg.record) ELSE arg.record

C19_Witness ==
    /\ ShapeDone
    /\ arg.record.shapeSlot = [Ixx |-> Num(2), Iyy |-> Num(2), Ixy |-> Num(1)]
    /\ arg.record.shapeFlagKey /\ arg.record.shapeFlag
    /\ ret.outcome = "return"
    /\ FAILURE \in record.flags

\* C20: the result that apply returns carries what the solver computed: the
\* centroid moved to parent coordinates, Ixx, Iyy, Ixy and the flags, and
\* I0, Ixy4 and the covariance terms whenever the solver produced them
C20_ResultCarriesAll ==
    (pc = "returned" /\ ~ret.thrown)
        => /\ ret.result.x = Shifted(shape.x, arg.x0)
           /\ ret.result.y = Shifted(shape.y, arg.y0)
           /\ ret.result.xx = shape.Ixx
           /\ ret.result.yy = shape.Iyy
           /\ ret.result.xy = shape.Ixy
           /\ shape.flags \subseteq ret.result.flags
           /\ ~shape.I0.nan => ret.result.instFlux = shape.I0
           /\ ~shape.Ixy4.nan => ret.result.xy4 = shape.Ixy4
           /\ shape.covar = "set" => ret.result.fluxCov = "set"

(***************************************************************************)
(* The moments loop: interpolation, termination, flags, weights            *)
(***************************************************************************)
\* C21: a step of the loop that finds shouldInterp true while interpflag is
\* false sets interpflag, keeps the weights of the previous iteration,
\* decrements iter and resets sigma11_ow_old to 1e6; a pass that starts its
\* convergence test with that value does not exit as converged; interpflag,
\* once true, stays true
C21_InterpTransition ==
    [][ /\ am.interpflag => am'.interpflag
        /\ (/\ pc = "weights" /\ pc' = "calcmom" /\ ~am.interpflag
            /\ shouldInterp(am.sigma11W, am.sigma22W,
                            getWeights(am.sigma11W, am.sigma12W, am.sigma22W,
                                       TRUE).det))
               => /\ am'.interpflag
                  /\ am.iter > 0
                  /\ am'.iter = am.iter - 1
                  /\ <<am'.w11, am'.w12, am'.w22>> = <<am.w11, am.w12, am.w22>>
                  /\ am'.sigma11_ow_old = OLD_INIT * FX
        /\ (pc = "moments" /\ am.sigma11_ow_old = OLD_INIT * FX)
               => am'.exit # "converged" ]_vars

\* the switch happened at the third iteration: the pass goes on with
\* iter = 1, the weights of the second iteration and sigma11_ow_old = 1e6
C21_Witness ==
    /\ pc = "calcmom"
    /\ am.interpflag
    /\ am.iter = 1
    /\ am.sumsSet
    /\ am.sigma11_ow_old = OLD_INIT * FX
    /\ am.w11 > 0

\* the sums of a weighted pass whose box and weight are centred on (cx, cy)
PassCentredOn(cx, cy) ==
    calcmom(FALSE, arg.image, cx, cy,
            set_amom_bbox(arg.image.width, arg.image.height, cx, cy,
                          am.sigma11W, am.sigma22W),
            arg.bkgd, am.interpflag, am.w11, am.w12, am.w22).sums

\* C22 as stated: a pass that follows an update of the centroid has its box
\* and its weight centred on the updated centroid
C22_CentredOnUpdated ==
    (pc = "centroid" /\ ~shape.x.nan)
        => am.sums = PassCentredOn(shape.x.v, shape.y.v)

\* C22, amended: every pass stores the centroid (sumx/sum, sumy/sum) in the
\* shape, and every pass, the first and the later ones, has its box and its
\* weight centred on the initial position (xcen, ycen)
C22_CentredOnInitial ==
    /\ pc = "centroid"
           => am.sums = PassCentredOn(arg.xcen, arg.ycen)
    /\ pc = "moments"
           => /\ shape.x = Num(FxDiv(am.sums.sumx, am.sums.sum))
              /\ shape.y = Num(FxDiv(am.sums.sumy, am.sums.sum))

\* a later pass, made after the centroid moved away from the initial centre
C22_Witness ==
    /\ pc = "centroid"
    /\ am.iter >= 1
    /\ ~shape.x.nan
    /\ shape.x.v # arg.xcen
    /\ am.sums = PassCentredOn(arg.xcen, arg.ycen)
    /\ am.sums # PassCentredOn(shape.x.v, shape.y.v)

\* the conditions of C23 on the state in which getAdaptiveMoments ends: the
\* moments do not sum to zero and the pixel at the rounded centre is in the
\* image and has a positive variance
CovarianceAvailable ==
    LET ix == FloorDiv(arg.xcen + FX \div 2, FX)
        iy == FloorDiv(arg.ycen + FX \div 2, FX)
    IN /\ ~shape.Ixx.nan /\ shape.Ixx.v + shape.Iyy.v # 0
       /\ ix >= 0 /\ ix < arg.image.width /\ iy >= 0 /\ iy < arg.image.height
       /\ ~arg.image.var.nan /\ arg.image.var.v > 0

\* C23 as stated: the covariance is stored whenever it is available, and in
\* every other case it is unset and no error is raised
C23_CovarianceWhenAvailable ==
    (pc = "done" /\ ret # "false")
        => /\ CovarianceAvailable => shape.covar = "set"
           /\ ~CovarianceAvailable => shape.covar = "unset" /\ ret = "true"

\* C23, amended: the covariance is computed only if it is available and
\* UNWEIGHTED is not set; it is then stored, unless the determinant of the
\* moments vanishes in float, in which case calc_fisher's domain error leaves
\* the function; in every other case the covariance is left unset and no
\* error is raised
C23_Covariance ==
    pc = "done"
        => IF ret = "false" THEN shape.covar = "unset"
           ELSE IF CovarianceAvailable /\ UNWEIGHTED \notin shape.flags
           THEN IF FloatDet(shape) > 0
                THEN shape.covar = "set" /\ ret = "true"
                ELSE shape.covar = "unset" /\ ret = "throw"
           ELSE shape.covar = "unset" /\ ret = "true"

\* the unweighted moments were returned for a pixel of positive variance:
\* no covariance
C23_Witness ==
    /\ pc = "done"
    /\ ret = "true"
    /\ CovarianceAvailable
    /\ UNWEIGHTED \in shape.flags
    /\ shape.covar = "unset"

(***************************************************************************)
(* Coordinates of the parent and of the image                              *)
(***************************************************************************)
\* the amplitude that getFixedMomentsFlux finds on the same image placed at
\* the origin (0, 0), with the centre moved by the same amount
AmplitudeAtOrigin ==
    LET xl == arg.xcen - arg.x0
        yl == arg.ycen - arg.y0
        sh == arg.shape
        weights == getWeights(sh.Ixx.v, sh.Ixy.v, sh.Iyy.v, TRUE)
        r == calcmom(TRUE, arg.image, xl, yl,
                     set_amom_bbox(arg.image.width, arg.image.height, xl, yl,
                                   sh.Ixx.v, sh.Iyy.v),
                     arg.bkgd, shouldInterp(sh.Ixx.v, sh.Iyy.v, weights.det),
                     weights.w11, weights.w12, weights.w22)
    IN IF r.wrote THEN r.I0 ELSE Num(0)

\* C24: the amplitude (and the flux with it) that getFixedMomentsFlux finds
\* does not depend on the origin of the image when the centre moves with it
C24_OriginInvariant ==
    pc = "fixedFisher" => shape.I0 = AmplitudeAtOrigin


\* the places of getAdaptiveMoments
AM_Labels ==
    {"start", "weights", "calcmom", "centroid", "moments", "post", "fallback",
     "finish", "done"}

\* control moves on
AM_Advance == pc # "done" /\ pc' \in AM_Labels \ {pc}

\* getAdaptiveMoments is sequential code: until it has returned, the next
\* statement is executed
SpecMomentsFair == SpecMoments /\ WF_pc(AM_Advance)

\* C25: getAdaptiveMoments terminates; iter decreases by one at most, and
\* only in the pass that sets interpflag, which then stays set; the body of
\* the loop runs maxIter + 1 times at most
C25_LoopTerminates ==
    /\ <>(pc = "done")
    /\ [](am.passes <= arg.maxIter + 1)
    /\ [][ /\ pc' # pc
           /\ am'.iter < am.iter
              => ~am.interpflag /\ am'.interpflag /\ am'.iter = am.iter - 1
           /\ am.interpflag => am'.interpflag
           /\ (pc = "moments" /\ pc' = "weights") => am'.iter = am.iter + 1 ]_vars

C25_Witness ==
    /\ pc = "done"
    /\ arg.maxIter = MaxIterBound
    /\ am.passes = arg.maxIter + 1
    /\ am.interpflag


\* C26: when getAdaptiveMoments returns, UNWEIGHTED and UNWEIGHTED_BAD are
\* not both set, and it returns false exactly when UNWEIGHTED_BAD is set
C26_UnweightedExclusive ==
    (pc = "done" /\ ret \in {"true", "false"})
        => /\ ~({UNWEIGHTED, UNWEIGHTED_BAD} \subseteq shape.flags)
           /\ ret = "false" <=> UNWEIGHTED_BAD \in shape.flags
           /\ ret = "true" <=> UNWEIGHTED_BAD \notin shape.flags

C26_Witness ==
    /\ pc = "done"
    /\ ret = "false"
    /\ ~arg.cenNaN
    /\ am.passes > 0
    /\ UNWEIGHTED_BAD \in shape.flags
    /\ UNWEIGHTED \notin shape.flags


(***************************************************************************)
(* The flags of the result of apply                                        *)
(***************************************************************************)
\* C27: in the result of apply FAILURE is set whenever one of the four
\* specific flags is, and each specific flag is set exactly when the solver
\* set the flag of the same name
C27_FlagsCopied ==
    (pc = "returned" /\ ~ret.thrown)
        => /\ ret.result.flags \cap {UNWEIGHTED_BAD, UNWEIGHTED, SHIFT, MAXITER} # {}
                => FAILURE \in ret.result.flags
           /\ \A f \in {UNWEIGHTED_BAD, UNWEIGHTED, SHIFT, MAXITER} :
                f \in ret.result.flags <=> f \in shape.flags

C27_Witness ==
    /\ pc = "returned"
    /\ ~ret.thrown
    /\ ~ret.caught
    /\ {FAILURE, SHIFT} \subseteq ret.result.flags
    /\ UNWEIGHTED_BAD \notin ret.result.flags


(***************************************************************************)
(* The flags of an aperture flux                                           *)
(***************************************************************************)
\* the call is answered by the sinc sum
SincAnswers ==
    \/ arg.call = "computeSincFlux"
    \/ arg.call = "computeFlux" /\ getB(arg.ellipse) <= arg.ctrl.maxSincRadius

\* C28: in every result of computeFlux, computeSincFlux and computeNaiveFlux
\* FAILURE is set iff APERTURE_TRUNCATED is; the naive sum never sets
\* SINC_COEFFS_TRUNCATED; in the sinc sum APERTURE_TRUNCATED implies
\* SINC_COEFFS_TRUNCATED; instFlux is assigned iff FAILURE is not set; a
\* circular aperture of radius above maxSincRadius given to computeFlux
\* never yields SINC_COEFFS_TRUNCATED
C28_ApertureFlags ==
    pc = "done"
        => /\ FAILURE \in ret.flags <=> APERTURE_TRUNCATED \in ret.flags
           /\ ~SincAnswers => SINC_COEFFS_TRUNCATED \notin ret.flags
           /\ (SincAnswers /\ APERTURE_TRUNCATED \in ret.flags)
                => SINC_COEFFS_TRUNCATED \in ret.flags
           /\ ~ret.instFlux.nan <=> FAILURE \notin ret.flags
           /\ (/\ arg.call = "computeFlux"
               /\ arg.ellipse.a = arg.ellipse.b
               /\ arg.ellipse.a > arg.ctrl.maxSincRadius)
                => SINC_COEFFS_TRUNCATED \notin ret.flags

C28_Witness ==
    /\ pc = "done"
    /\ arg.call = "computeFlux"
    /\ SincAnswers
    /\ ret.flags = {SINC_COEFFS_TRUNCATED, APERTURE_TRUNCATED, FAILURE}
    /\ ret.instFlux.nan


(***************************************************************************)
(* What SafeCentroidExtractor leaves alone                                 *)
(***************************************************************************)
\* C29: SafeCentroidExtractor leaves the record as it was when it is a
\* centroider, and in either mode when it raises an error: the failure flag
\* is written by a consumer only, on a path that returns a centroid
C29_FlagsFrame ==
    CentroidDone
        => /\ (arg.isCentroider \/ ret.outcome # "return") => record = arg.record
           /\ record # arg.record
                => /\ ~arg.isCentroider
                   /\ ret.outcome = "return"
                   /\ record = setFailure(arg.record)

C29_Witness ==
    /\ CentroidDone
    /\ arg.isCentroider
    /\ arg.record.centroidKey
    /\ arg.record.centroidFlagKey
    /\ arg.record.centroidFlag
    /\ NaNCentroid(arg.record)
    /\ ret.outcome = "return"
    /\ ret.value = FirstPeak(arg.record)
    /\ record = arg.record
    /\ FAILURE \notin record.flags


(***************************************************************************)
(* The weights given to calcmom                                            *)
(***************************************************************************)
\* C30: at every call of calcmom from getAdaptiveMoments w11 >= 0: the
\* weights are never the initial (-1, -1, -1); the first pass does not switch
\* to interpolation, and the weights of a pass come from moments with
\* sigma11W > 0 and sigma22W > 0 that getWeights accepted
C30_WeightAsserted ==
    /\ pc = "calcmom"
         => /\ am.w11 >= 0
            /\ <<am.w11, am.w12, am.w22>> # <<NewLocals.w11, NewLocals.w12, NewLocals.w22>>
            /\ am.sigma11W > 0 /\ am.sigma22W > 0
            /\ getWeights(am.sigma11W, am.sigma12W, am.sigma22W, TRUE).ok
    /\ (pc = "weights" /\ am.passes = 0)
         => /\ am.iter = 0
            /\ ~shouldInterp(am.sigma11W, am.sigma22W,
                             getWeights(am.sigma11W, am.sigma12W, am.sigma22W, TRUE).det)
    /\ (pc = "weights" /\ am.passes > 0) => am.w11 >= 0

C30_Witness ==
    /\ pc = "calcmom"
    /\ am.interpflag
    /\ am.passes >= 2
    /\ am.w11 > 0
    /\ <<am.w11, am.w12, am.w22>>
         # <<getWeights(am.sigma11W, am.sigma12W, am.sigma22W, TRUE).w11,
              getWeights(am.sigma11W, am.sigma12W, am.sigma22W, TRUE).w12,
              getWeights(am.sigma11W, am.sigma12W, am.sigma22W, TRUE).w22>>

=============================================================================
